---------------------------- MODULE Spec2Model ----------------------------
(***************************************************************************)
(* Region-name reconciliation and aggregation of the public-sector         *)
(* customer dashboard: the KoreaMap component (src/components/KoreaMap.tsx),*)
(* the name tables and normalisation (src/data/regionMappings.ts), the    *)
(* aggregation helpers (src/data/clients.ts), the Home page that shows    *)
(* the map, its tabs and its lists (src/app/page.tsx), the loading of the  *)
(* map geometry with its retries, and the client of the remote store with  *)
(* the overlays Home keeps from it (src/lib/googleSheets.ts).              *)
(*                                                                         *)
(* Strings are sequences of characters.  A Hangul syllable is written as   *)
(* its romanisation with the initial consonant always spelled out (the     *)
(* silent initial is "x"), so each syllable is one character of two or     *)
(* more letters and equal syllables are equal characters: "si" is the      *)
(* city suffix, "do" the province suffix, "gun" the county suffix, "gu"    *)
(* the district suffix.  A Latin letter, a hyphen or a blank is a          *)
(* character of one letter.                                                *)
(***************************************************************************)
EXTENDS Integers, Sequences, FiniteSets, TLC

VARIABLES
  data,            \* KoreaMap prop: the customer records, in array order
  type,            \* KoreaMap prop: "province" | "municipality"
  aggregatedData,  \* useMemo result: entries in key insertion order
  painted,         \* fill colour of every drawn feature of the map
  call,            \* the call a handler or a caller has just made, with its result
  input,           \* normalisation run: the input string
  out,             \* normalisation run: the outputs of the successive applications
  activeTab,       \* Home state: the tab shown
  showPoc,         \* Home state: whether PoC customers are listed
  selectedRegion,  \* Home state: null | the region chosen on the map
  seed,            \* TAB_CONFIG[tab].data: the record array behind every tab
  loading,         \* KoreaMap state: the spinner is shown
  error,           \* KoreaMap state: null | the message shown
  retryCount,      \* KoreaMap state: manual retries since the last drawn map
  loads,           \* the drawMap calls started so far, in order of their start
  remote,          \* the remote store: the sheet rows and how it answers
  contractInfos,   \* Home state: contract overlay, by client name
  userMetrics,     \* Home state: user-metric overlay, by client name
  alerts           \* number of alert() dialogs shown

\* the state of the Home page around the map
page == << activeTab, showPoc, selectedRegion, seed >>

\* the loading state of the map
net == << loading, error, retryCount, loads >>

\* the remote store and the overlays Home keeps of it
sheets == << remote, contractInfos, userMetrics, alerts >>

rest == << net, sheets >>

vars == << data, type, aggregatedData, painted, call, input, out, page, rest >>

-----------------------------------------------------------------------------
(* Bounds *)

\* longest record array handed to the component
MaxRecords == 2
\* longest string given to the normalisation run
MaxLen == 4

-----------------------------------------------------------------------------
(* JavaScript values *)

\* an absent optional property / a missing table entry
undefined == << "undefined" >>

\* JavaScript truthiness of an optional string
Truthy(v) == v # undefined /\ v # << >>

\* a || b on optional strings
Or(a, b) == IF Truthy(a) THEN a ELSE b

Min(S) == CHOOSE m \in S : \A n \in S : m <= n
Max(S) == CHOOSE m \in S : \A n \in S : m >= n

\* String.prototype.includes: b occurs in a as a contiguous substring
includes(a, b) ==
  \E i \in 0..(Len(a) - Len(b)) : \A j \in 1..Len(b) : a[i + j] = b[j]

\* The object an object literal (or Object.fromEntries) builds from its
\* entries: one property per distinct key, a later duplicate overwriting.
ObjectOf(entries) ==
  [k \in { entries[i][1] : i \in 1..Len(entries) } |->
     entries[Max({ i \in 1..Len(entries) : entries[i][1] = k })][2]]

\* names every object inherits from Object.prototype (some of them)
OBJECT_PROTOTYPE_KEYS ==
  { <<"c", "o", "n", "s", "t", "r", "u", "c", "t", "o", "r">>,
    <<"t", "o", "S", "t", "r", "i", "n", "g">>,
    <<"v", "a", "l", "u", "e", "O", "f">>,
    <<"_", "_", "p", "r", "o", "t", "o", "_", "_">> }

\* the value (a function or an object, never a string) inherited under name k
Inherited(k) == << "Object.prototype" >> \o k

\* obj[k]: the own property, else the inherited one, else undefined
Get(obj, k) ==
  IF k \in DOMAIN obj THEN obj[k]
  ELSE IF k \in OBJECT_PROTOTYPE_KEYS THEN Inherited(k)
  ELSE undefined

-----------------------------------------------------------------------------
(* src/data/regionMappings.ts: the name tables *)

\* Province level, external (GeoJSON NAME_1) name -> internal name, in entry order.
PROVINCE_EN_TO_KR_ENTRIES ==
  <<
    << <<"S", "e", "o", "u", "l">>, <<"seo", "xul", "teuk", "byeol", "si">> >>,
    << <<"B", "u", "s", "a", "n">>, <<"bu", "san", "gwang", "xyeok", "si">> >>,
    << <<"D", "a", "e", "g", "u">>, <<"dae", "gu", "gwang", "xyeok", "si">> >>,
    << <<"I", "n", "c", "h", "e", "o", "n">>, <<"xin", "cheon", "gwang", "xyeok", "si">> >>,
    << <<"G", "w", "a", "n", "g", "j", "u">>, <<"gwang", "ju", "gwang", "xyeok", "si">> >>,
    << <<"D", "a", "e", "j", "e", "o", "n">>, <<"dae", "jeon", "gwang", "xyeok", "si">> >>,
    << <<"U", "l", "s", "a", "n">>, <<"xul", "san", "gwang", "xyeok", "si">> >>,
    << <<"S", "e", "j", "o", "n", "g">>, <<"se", "jong", "teuk", "byeol", "ja", "chi", "si">> >>,
    << <<"G", "y", "e", "o", "n", "g", "g", "i", "-", "d", "o">>, <<"gyeong", "gi", "do">> >>,
    << <<"G", "a", "n", "g", "w", "o", "n", "-", "d", "o">>, <<"gang", "xwon", "teuk", "byeol", "ja", "chi", "do">> >>,
    << <<"C", "h", "u", "n", "g", "c", "h", "e", "o", "n", "g", "b", "u", "k", "-", "d", "o">>, <<"chung", "cheong", "buk", "do">> >>,
    << <<"C", "h", "u", "n", "g", "c", "h", "e", "o", "n", "g", "n", "a", "m", "-", "d", "o">>, <<"chung", "cheong", "nam", "do">> >>,
    << <<"J", "e", "o", "l", "l", "a", "b", "u", "k", "-", "d", "o">>, <<"jeon", "buk", "teuk", "byeol", "ja", "chi", "do">> >>,
    << <<"J", "e", "o", "l", "l", "a", "n", "a", "m", "-", "d", "o">>, <<"jeon", "ra", "nam", "do">> >>,
    << <<"G", "y", "e", "o", "n", "g", "s", "a", "n", "g", "b", "u", "k", "-", "d", "o">>, <<"gyeong", "sang", "buk", "do">> >>,
    << <<"G", "y", "e", "o", "n", "g", "s", "a", "n", "g", "n", "a", "m", "-", "d", "o">>, <<"gyeong", "sang", "nam", "do">> >>,
    << <<"J", "e", "j", "u">>, <<"je", "ju", "teuk", "byeol", "ja", "chi", "do">> >>
  >>

\* Municipality level, internal name -> external (GeoJSON NAME_2) name, in entry order.
MUNICIPALITY_KR_TO_EN_ENTRIES ==
  <<
    << <<"su", "xwon", "si">>, <<"S", "u", "w", "o", "n">> >>,
    << <<"seong", "nam", "si">>, <<"S", "e", "o", "n", "g", "n", "a", "m">> >>,
    << <<"xan", "xyang", "si">>, <<"A", "n", "y", "a", "n", "g">> >>,
    << <<"xan", "san", "si">>, <<"A", "n", "s", "a", "n">> >>,
    << <<"xyong", "xin", "si">>, <<"Y", "o", "n", "g", "i", "n">> >>,
    << <<"bu", "cheon", "si">>, <<"B", "u", "c", "h", "e", "o", "n">> >>,
    << <<"gwang", "myeong", "si">>, <<"G", "w", "a", "n", "g", "m", "y", "e", "o", "n", "g">> >>,
    << <<"pyeong", "taek", "si">>, <<"P", "y", "e", "o", "n", "g", "t", "a", "e", "k">> >>,
    << <<"gwa", "cheon", "si">>, <<"G", "w", "a", "c", "h", "e", "o", "n">> >>,
    << <<"xo", "san", "si">>, <<"O", "s", "a", "n">> >>,
    << <<"si", "heung", "si">>, <<"S", "i", "h", "e", "u", "n", "g">> >>,
    << <<"gun", "po", "si">>, <<"G", "u", "n", "p", "o">> >>,
    << <<"xui", "xwang", "si">>, <<"U", "i", "w", "a", "n", "g">> >>,
    << <<"ha", "nam", "si">>, <<"H", "a", "n", "a", "m">> >>,
    << <<"xi", "cheon", "si">>, <<"I", "c", "h", "e", "o", "n">> >>,
    << <<"xan", "seong", "si">>, <<"A", "n", "s", "e", "o", "n", "g">> >>,
    << <<"gim", "po", "si">>, <<"G", "i", "m", "p", "o">> >>,
    << <<"hwa", "seong", "si">>, <<"H", "w", "a", "s", "e", "o", "n", "g">> >>,
    << <<"gwang", "ju", "si">>, <<"G", "w", "a", "n", "g", "j", "u", "-", "s", "i">> >>,
    << <<"xyeo", "ju", "si">>, <<"Y", "e", "o", "j", "u">> >>,
    << <<"xyang", "pyeong", "gun">>, <<"Y", "a", "n", "g", "p", "y", "e", "o", "n", "g">> >>,
    << <<"go", "xyang", "si">>, <<"G", "o", "y", "a", "n", "g">> >>,
    << <<"pa", "ju", "si">>, <<"P", "a", "j", "u">> >>,
    << <<"xui", "jeong", "bu", "si">>, <<"U", "i", "j", "e", "o", "n", "g", "b", "u">> >>,
    << <<"dong", "du", "cheon", "si">>, <<"D", "o", "n", "g", "d", "u", "c", "h", "e", "o", "n">> >>,
    << <<"xyang", "ju", "si">>, <<"Y", "a", "n", "g", "j", "u">> >>,
    << <<"po", "cheon", "si">>, <<"P", "o", "c", "h", "e", "o", "n">> >>,
    << <<"gu", "ri", "si">>, <<"G", "u", "r", "i">> >>,
    << <<"nam", "xyang", "ju", "si">>, <<"N", "a", "m", "y", "a", "n", "g", "j", "u">> >>,
    << <<"ga", "pyeong", "gun">>, <<"G", "a", "p", "y", "e", "o", "n", "g">> >>,
    << <<"xyeon", "cheon", "gun">>, <<"Y", "e", "o", "n", "c", "h", "e", "o", "n">> >>,
    << <<"jong", "ro", "gu">>, <<"J", "o", "n", "g", "n", "o">> >>,
    << <<"jung", "gu">>, <<"J", "u", "n", "g">> >>,
    << <<"xyong", "san", "gu">>, <<"Y", "o", "n", "g", "s", "a", "n">> >>,
    << <<"seong", "dong", "gu">>, <<"S", "e", "o", "n", "g", "d", "o", "n", "g">> >>,
    << <<"gwang", "jin", "gu">>, <<"G", "w", "a", "n", "g", "-", "j", "i", "n">> >>,
    << <<"dong", "dae", "mun", "gu">>, <<"D", "o", "n", "g", "d", "a", "e", "m", "u", "n">> >>,
    << <<"jung", "rang", "gu">>, <<"J", "u", "n", "g", "n", "a", "n", "g">> >>,
    << <<"seong", "buk", "gu">>, <<"S", "e", "o", "n", "g", "b", "u", "k">> >>,
    << <<"gang", "buk", "gu">>, <<"G", "a", "n", "g", "b", "u", "k">> >>,
    << <<"do", "bong", "gu">>, <<"D", "o", "b", "o", "n", "g">> >>,
    << <<"no", "xwon", "gu">>, <<"N", "o", "w", "o", "n">> >>,
    << <<"xeun", "pyeong", "gu">>, <<"E", "u", "n", "-", "p", "y", "e", "o", "n", "g">> >>,
    << <<"seo", "dae", "mun", "gu">>, <<"S", "e", "o", "d", "a", "e", "m", "u", "n">> >>,
    << <<"ma", "po", "gu">>, <<"M", "a", "p", "o">> >>,
    << <<"xyang", "cheon", "gu">>, <<"Y", "a", "n", "g", "c", "h", "e", "o", "n">> >>,
    << <<"gang", "seo", "gu">>, <<"G", "a", "n", "g", "s", "e", "o">> >>,
    << <<"gu", "ro", "gu">>, <<"G", "u", "r", "o">> >>,
    << <<"geum", "cheon", "gu">>, <<"G", "e", "u", "m", "-", "c", "h", "e", "o", "n">> >>,
    << <<"xyeong", "deung", "po", "gu">>, <<"Y", "e", "o", "n", "g", "d", "e", "u", "n", "g", "p", "o">> >>,
    << <<"dong", "jak", "gu">>, <<"D", "o", "n", "g", "j", "a", "k">> >>,
    << <<"gwan", "xak", "gu">>, <<"G", "w", "a", "n", "a", "k">> >>,
    << <<"seo", "cho", "gu">>, <<"S", "e", "o", "c", "h", "o">> >>,
    << <<"gang", "nam", "gu">>, <<"G", "a", "n", "g", "n", "a", "m">> >>,
    << <<"song", "pa", "gu">>, <<"S", "o", "n", "g", "p", "a">> >>,
    << <<"gang", "dong", "gu">>, <<"G", "a", "n", "d", "o", "n", "g">> >>,
    << <<"hae", "xun", "dae", "gu">>, <<"H", "a", "e", "u", "n", "d", "a", "e">> >>,
    << <<"sa", "ha", "gu">>, <<"S", "a", "h", "a">> >>,
    << <<"geum", "jeong", "gu">>, <<"G", "e", "u", "m", "j", "e", "o", "n", "g">> >>,
    << <<"buk", "gu">>, <<"B", "u", "k">> >>,
    << <<"sa", "sang", "gu">>, <<"S", "a", "s", "a", "n", "g">> >>,
    << <<"xyeon", "je", "gu">>, <<"Y", "e", "o", "n", "j", "e">> >>,
    << <<"su", "xyeong", "gu">>, <<"S", "u", "y", "e", "o", "n", "g">> >>,
    << <<"nam", "gu">>, <<"N", "a", "m">> >>,
    << <<"dong", "gu">>, <<"D", "o", "n", "g">> >>,
    << <<"seo", "gu">>, <<"S", "e", "o">> >>,
    << <<"xyeong", "do", "gu">>, <<"Y", "e", "o", "n", "g", "d", "o">> >>,
    << <<"bu", "san", "jin", "gu">>, <<"B", "u", "s", "a", "n", "j", "i", "n">> >>,
    << <<"gi", "jang", "gun">>, <<"G", "i", "j", "a", "n", "g">> >>,
    << <<"chang", "xwon", "si">>, <<"C", "h", "a", "n", "g", "w", "o", "n">> >>,
    << <<"jin", "ju", "si">>, <<"J", "i", "n", "j", "u">> >>,
    << <<"tong", "xyeong", "si">>, <<"T", "o", "n", "g", "y", "e", "o", "n", "g">> >>,
    << <<"sa", "cheon", "si">>, <<"S", "a", "c", "h", "e", "o", "n">> >>,
    << <<"gim", "hae", "si">>, <<"G", "i", "m", "h", "a", "e">> >>,
    << <<"mil", "xyang", "si">>, <<"M", "i", "r", "y", "a", "n", "g">> >>,
    << <<"geo", "je", "si">>, <<"G", "e", "o", "j", "e">> >>,
    << <<"xyang", "san", "si">>, <<"Y", "a", "n", "g", "s", "a", "n">> >>,
    << <<"xui", "ryeong", "gun">>, <<"U", "i", "r", "y", "e", "o", "n", "g">> >>,
    << <<"ham", "xan", "gun">>, <<"H", "a", "m", "a", "n">> >>,
    << <<"chang", "nyeong", "gun">>, <<"C", "h", "a", "n", "g", "n", "y", "e", "o", "n", "g">> >>,
    << <<"go", "seong", "gun", "(", "gyeong", "nam", ")">>, <<"G", "o", "s", "e", "o", "n", "g">> >>,
    << <<"nam", "hae", "gun">>, <<"N", "a", "m", "h", "a", "e">> >>,
    << <<"ha", "dong", "gun">>, <<"H", "a", "d", "o", "n", "g">> >>,
    << <<"san", "cheong", "gun">>, <<"S", "a", "n", "c", "h", "e", "o", "n", "g">> >>,
    << <<"ham", "xyang", "gun">>, <<"H", "a", "m", "y", "a", "n", "g">> >>,
    << <<"geo", "chang", "gun">>, <<"G", "e", "o", "c", "h", "a", "n", "g">> >>,
    << <<"hap", "cheon", "gun">>, <<"H", "a", "p", "c", "h", "e", "o", "n">> >>,
    << <<"cheong", "ju", "si">>, <<"C", "h", "e", "o", "n", "g", "j", "u">> >>,
    << <<"chung", "ju", "si">>, <<"C", "h", "u", "n", "g", "j", "u">> >>,
    << <<"je", "cheon", "si">>, <<"J", "e", "c", "h", "e", "o", "n">> >>,
    << <<"bo", "xeun", "gun">>, <<"B", "o", "e", "u", "n">> >>,
    << <<"xok", "cheon", "gun">>, <<"O", "k", "c", "h", "e", "o", "n">> >>,
    << <<"xyeong", "dong", "gun">>, <<"Y", "e", "o", "n", "g", "d", "o", "n", "g">> >>,
    << <<"jeung", "pyeong", "gun">>, <<"J", "e", "u", "n", "g", "p", "y", "e", "o", "n", "g">> >>,
    << <<"jin", "cheon", "gun">>, <<"J", "i", "n", "c", "h", "e", "o", "n">> >>,
    << <<"goe", "san", "gun">>, <<"G", "o", "e", "s", "a", "n">> >>,
    << <<"xeum", "seong", "gun">>, <<"E", "u", "m", "s", "e", "o", "n", "g">> >>,
    << <<"dan", "xyang", "gun">>, <<"D", "a", "n", "y", "a", "n", "g">> >>,
    << <<"cheon", "xan", "si">>, <<"C", "h", "e", "o", "n", "a", "n">> >>,
    << <<"gong", "ju", "si">>, <<"G", "o", "n", "g", "j", "u">> >>,
    << <<"bo", "ryeong", "si">>, <<"B", "o", "r", "y", "e", "o", "n", "g">> >>,
    << <<"xa", "san", "si">>, <<"A", "s", "a", "n">> >>,
    << <<"seo", "san", "si">>, <<"S", "e", "o", "s", "a", "n">> >>,
    << <<"non", "san", "si">>, <<"N", "o", "n", "s", "a", "n">> >>,
    << <<"gye", "ryong", "si">>, <<"G", "y", "e", "r", "y", "o", "n", "g">> >>,
    << <<"dang", "jin", "si">>, <<"D", "a", "n", "g", "j", "i", "n">> >>,
    << <<"geum", "san", "gun">>, <<"G", "e", "u", "m", "s", "a", "n">> >>,
    << <<"bu", "xyeo", "gun">>, <<"B", "u", "y", "e", "o">> >>,
    << <<"seo", "cheon", "gun">>, <<"S", "e", "o", "c", "h", "e", "o", "n">> >>,
    << <<"cheong", "xyang", "gun">>, <<"C", "h", "e", "o", "n", "g", "y", "a", "n", "g">> >>,
    << <<"hong", "seong", "gun">>, <<"H", "o", "n", "g", "s", "e", "o", "n", "g">> >>,
    << <<"xye", "san", "gun">>, <<"Y", "e", "s", "a", "n">> >>,
    << <<"tae", "xan", "gun">>, <<"T", "a", "e", "a", "n">> >>,
    << <<"mok", "po", "si">>, <<"M", "o", "k", "p", "o">> >>,
    << <<"xyeo", "su", "si">>, <<"Y", "e", "o", "s", "u">> >>,
    << <<"sun", "cheon", "si">>, <<"S", "u", "n", "c", "h", "e", "o", "n">> >>,
    << <<"na", "ju", "si">>, <<"N", "a", "j", "u">> >>,
    << <<"gwang", "xyang", "si">>, <<"G", "w", "a", "n", "g", "y", "a", "n", "g">> >>,
    << <<"dam", "xyang", "gun">>, <<"D", "a", "m", "y", "a", "n", "g">> >>,
    << <<"gok", "seong", "gun">>, <<"G", "o", "k", "s", "e", "o", "n", "g">> >>,
    << <<"gu", "rye", "gun">>, <<"G", "u", "r", "y", "e">> >>,
    << <<"go", "heung", "gun">>, <<"G", "o", "h", "e", "u", "n", "g">> >>,
    << <<"bo", "seong", "gun">>, <<"B", "o", "s", "e", "o", "n", "g">> >>,
    << <<"hwa", "sun", "gun">>, <<"H", "w", "a", "s", "u", "n">> >>,
    << <<"jang", "heung", "gun">>, <<"J", "a", "n", "g", "h", "e", "u", "n", "g">> >>,
    << <<"gang", "jin", "gun">>, <<"G", "a", "n", "g", "j", "i", "n">> >>,
    << <<"hae", "nam", "gun">>, <<"H", "a", "e", "n", "a", "m">> >>,
    << <<"xyeong", "xam", "gun">>, <<"Y", "e", "o", "n", "g", "a", "m">> >>,
    << <<"mu", "xan", "gun">>, <<"M", "u", "a", "n">> >>,
    << <<"ham", "pyeong", "gun">>, <<"H", "a", "m", "p", "y", "e", "o", "n", "g">> >>,
    << <<"xyeong", "gwang", "gun">>, <<"Y", "e", "o", "n", "g", "g", "w", "a", "n", "g">> >>,
    << <<"jang", "seong", "gun">>, <<"J", "a", "n", "g", "s", "e", "o", "n", "g">> >>,
    << <<"xwan", "do", "gun">>, <<"W", "a", "n", "d", "o">> >>,
    << <<"jin", "do", "gun">>, <<"J", "i", "n", "d", "o">> >>,
    << <<"sin", "xan", "gun">>, <<"S", "i", "n", "a", "n">> >>,
    << <<"po", "hang", "si">>, <<"P", "o", "h", "a", "n", "g">> >>,
    << <<"gyeong", "ju", "si">>, <<"G", "y", "e", "o", "n", "g", "j", "u">> >>,
    << <<"gim", "cheon", "si">>, <<"G", "i", "m", "c", "h", "e", "o", "n">> >>,
    << <<"xan", "dong", "si">>, <<"A", "n", "d", "o", "n", "g">> >>,
    << <<"gu", "mi", "si">>, <<"G", "u", "m", "i">> >>,
    << <<"xyeong", "ju", "si">>, <<"Y", "e", "o", "n", "g", "j", "u">> >>,
    << <<"xyeong", "cheon", "si">>, <<"Y", "e", "o", "n", "g", "c", "h", "e", "o", "n">> >>,
    << <<"sang", "ju", "si">>, <<"S", "a", "n", "g", "j", "u">> >>,
    << <<"mun", "gyeong", "si">>, <<"M", "u", "n", "g", "y", "e", "o", "n", "g">> >>,
    << <<"gyeong", "san", "si">>, <<"G", "y", "e", "o", "n", "g", "s", "a", "n">> >>,
    << <<"gun", "xwi", "gun">>, <<"G", "u", "n", "w", "i">> >>,
    << <<"xui", "seong", "gun">>, <<"U", "i", "s", "e", "o", "n", "g">> >>,
    << <<"cheong", "song", "gun">>, <<"C", "h", "e", "o", "n", "g", "s", "o", "n", "g">> >>,
    << <<"xyeong", "xyang", "gun">>, <<"Y", "e", "o", "n", "g", "y", "a", "n", "g">> >>,
    << <<"xyeong", "deok", "gun">>, <<"Y", "e", "o", "n", "g", "d", "e", "o", "k">> >>,
    << <<"cheong", "do", "gun">>, <<"C", "h", "e", "o", "n", "g", "d", "o">> >>,
    << <<"go", "ryeong", "gun">>, <<"G", "o", "r", "y", "e", "o", "n", "g">> >>,
    << <<"seong", "ju", "gun">>, <<"S", "e", "o", "n", "g", "j", "u">> >>,
    << <<"chil", "gok", "gun">>, <<"C", "h", "i", "l", "g", "o", "k">> >>,
    << <<"xye", "cheon", "gun">>, <<"Y", "e", "c", "h", "e", "o", "n">> >>,
    << <<"bong", "hwa", "gun">>, <<"B", "o", "n", "g", "h", "w", "a">> >>,
    << <<"xul", "jin", "gun">>, <<"U", "l", "j", "i", "n">> >>,
    << <<"xul", "reung", "gun">>, <<"U", "l", "l", "e", "u", "n", "g">> >>,
    << <<"chun", "cheon", "si">>, <<"C", "h", "u", "n", "c", "h", "e", "o", "n">> >>,
    << <<"xwon", "ju", "si">>, <<"W", "o", "n", "j", "u">> >>,
    << <<"gang", "reung", "si">>, <<"G", "a", "n", "g", "n", "e", "u", "n", "g">> >>,
    << <<"dong", "hae", "si">>, <<"D", "o", "n", "g", "h", "a", "e">> >>,
    << <<"tae", "baek", "si">>, <<"T", "a", "e", "b", "a", "e", "k">> >>,
    << <<"sok", "cho", "si">>, <<"S", "o", "k", "c", "h", "o">> >>,
    << <<"sam", "cheok", "si">>, <<"S", "a", "m", "c", "h", "e", "o", "k">> >>,
    << <<"hong", "cheon", "gun">>, <<"H", "o", "n", "g", "c", "h", "e", "o", "n">> >>,
    << <<"hoeng", "seong", "gun">>, <<"H", "o", "e", "n", "g", "s", "e", "o", "n", "g">> >>,
    << <<"xyeong", "xwol", "gun">>, <<"Y", "e", "o", "n", "g", "w", "o", "l">> >>,
    << <<"pyeong", "chang", "gun">>, <<"P", "y", "e", "o", "n", "g", "c", "h", "a", "n", "g">> >>,
    << <<"jeong", "seon", "gun">>, <<"J", "e", "o", "n", "g", "s", "e", "o", "n">> >>,
    << <<"cheol", "xwon", "gun">>, <<"C", "h", "e", "o", "r", "w", "o", "n">> >>,
    << <<"hwa", "cheon", "gun">>, <<"H", "w", "a", "c", "h", "e", "o", "n">> >>,
    << <<"xyang", "gu", "gun">>, <<"Y", "a", "n", "g", "g", "u">> >>,
    << <<"xin", "je", "gun">>, <<"I", "n", "j", "e">> >>,
    << <<"go", "seong", "gun", "(", "gang", "xwon", ")">>, <<"G", "o", "s", "e", "o", "n", "g", "-", "g", "u", "n">> >>,
    << <<"xyang", "xyang", "gun">>, <<"Y", "a", "n", "g", "y", "a", "n", "g">> >>,
    << <<"je", "ju", "si">>, <<"J", "e", "j", "u", "-", "s", "i">> >>,
    << <<"seo", "gwi", "po", "si">>, <<"S", "e", "o", "g", "w", "i", "p", "o">> >>,
    << <<"xyu", "seong", "gu">>, <<"Y", "u", "s", "e", "o", "n", "g">> >>,
    << <<"dae", "deok", "gu">>, <<"D", "a", "e", "d", "e", "o", "k">> >>,
    << <<"dal", "seo", "gu">>, <<"D", "a", "l", "s", "e", "o">> >>,
    << <<"dal", "seong", "gun">>, <<"D", "a", "l", "s", "e", "o", "n", "g">> >>,
    << <<"su", "seong", "gu">>, <<"S", "u", "s", "e", "o", "n", "g">> >>,
    << <<"xyeon", "su", "gu">>, <<"Y", "e", "o", "n", "s", "u">> >>,
    << <<"nam", "dong", "gu">>, <<"N", "a", "m", "d", "o", "n", "g">> >>,
    << <<"bu", "pyeong", "gu">>, <<"B", "u", "p", "y", "e", "o", "n", "g">> >>,
    << <<"gye", "xyang", "gu">>, <<"G", "y", "e", "y", "a", "n", "g">> >>,
    << <<"mi", "chu", "hol", "gu">>, <<"M", "i", "c", "h", "u", "h", "o", "l">> >>,
    << <<"xong", "jin", "gun">>, <<"O", "n", "g", "j", "i", "n">> >>,
    << <<"gang", "hwa", "gun">>, <<"G", "a", "n", "g", "h", "w", "a">> >>,
    << <<"gwang", "san", "gu">>, <<"G", "w", "a", "n", "g", "s", "a", "n">> >>,
    << <<"xul", "ju", "gun">>, <<"U", "l", "j", "u">> >>
  >>

\* Abbreviated internal province name -> external full name, in entry order.
PROVINCE_ABBR_TO_EN_ENTRIES ==
  <<
    << <<"seo", "xul">>, <<"S", "e", "o", "u", "l">> >>,
    << <<"bu", "san">>, <<"B", "u", "s", "a", "n">> >>,
    << <<"dae", "gu">>, <<"D", "a", "e", "g", "u">> >>,
    << <<"xin", "cheon">>, <<"I", "n", "c", "h", "e", "o", "n">> >>,
    << <<"gwang", "ju">>, <<"G", "w", "a", "n", "g", "j", "u">> >>,
    << <<"dae", "jeon">>, <<"D", "a", "e", "j", "e", "o", "n">> >>,
    << <<"xul", "san">>, <<"U", "l", "s", "a", "n">> >>,
    << <<"se", "jong">>, <<"S", "e", "j", "o", "n", "g">> >>,
    << <<"gyeong", "gi">>, <<"G", "y", "e", "o", "n", "g", "g", "i", "-", "d", "o">> >>,
    << <<"gang", "xwon">>, <<"G", "a", "n", "g", "w", "o", "n", "-", "d", "o">> >>,
    << <<"chung", "buk">>, <<"C", "h", "u", "n", "g", "c", "h", "e", "o", "n", "g", "b", "u", "k", "-", "d", "o">> >>,
    << <<"chung", "nam">>, <<"C", "h", "u", "n", "g", "c", "h", "e", "o", "n", "g", "n", "a", "m", "-", "d", "o">> >>,
    << <<"jeon", "buk">>, <<"J", "e", "o", "l", "l", "a", "b", "u", "k", "-", "d", "o">> >>,
    << <<"jeon", "nam">>, <<"J", "e", "o", "l", "l", "a", "n", "a", "m", "-", "d", "o">> >>,
    << <<"gyeong", "buk">>, <<"G", "y", "e", "o", "n", "g", "s", "a", "n", "g", "b", "u", "k", "-", "d", "o">> >>,
    << <<"gyeong", "nam">>, <<"G", "y", "e", "o", "n", "g", "s", "a", "n", "g", "n", "a", "m", "-", "d", "o">> >>,
    << <<"je", "ju">>, <<"J", "e", "j", "u">> >>
  >>

PROVINCE_EN_TO_KR == ObjectOf(PROVINCE_EN_TO_KR_ENTRIES)

MUNICIPALITY_KR_TO_EN == ObjectOf(MUNICIPALITY_KR_TO_EN_ENTRIES)

PROVINCE_ABBR_TO_EN == ObjectOf(PROVINCE_ABBR_TO_EN_ENTRIES)

\* Object.entries(T).map(([a, b]) => [b, a])
\* an inversion that leaves the entries as they are
Swapped_Unchanged(entries) == entries

Swapped(entries) == [i \in 1..Len(entries) |-> << entries[i][2], entries[i][1] >>]

\* Object.fromEntries(Object.entries(PROVINCE_EN_TO_KR).map(([en, kr]) => [kr, en]))
PROVINCE_KR_TO_EN == ObjectOf(Swapped(PROVINCE_EN_TO_KR_ENTRIES))

\* Object.fromEntries(Object.entries(MUNICIPALITY_KR_TO_EN).map(([kr, en]) => [en, kr]))
MUNICIPALITY_EN_TO_KR == ObjectOf(Swapped(MUNICIPALITY_KR_TO_EN_ENTRIES))

\* toKoreanName(englishName, type)
toKoreanName(englishName, t) ==
  IF t = "province"
    THEN Or(Get(PROVINCE_EN_TO_KR, englishName), englishName)
    ELSE Or(Get(MUNICIPALITY_EN_TO_KR, englishName), englishName)

\* toEnglishName(koreanName, type)
\* a toEnglishName that does not look at the abbreviation table
toEnglishName_NoAbbr(koreanName, t) ==
  IF t = "province"
    THEN Or(Get(PROVINCE_KR_TO_EN, koreanName), koreanName)
    ELSE Or(Get(MUNICIPALITY_KR_TO_EN, koreanName), koreanName)

toEnglishName(koreanName, t) ==
  IF t = "province"
    THEN IF Truthy(Get(PROVINCE_ABBR_TO_EN, koreanName))
           THEN Get(PROVINCE_ABBR_TO_EN, koreanName)
           ELSE Or(Get(PROVINCE_KR_TO_EN, koreanName), koreanName)
    ELSE Or(Get(MUNICIPALITY_KR_TO_EN, koreanName), koreanName)

-----------------------------------------------------------------------------
(* src/data/regionMappings.ts: normalisation and the partial-match predicate *)

\* the alternatives of the regular expression, in the order it tries them
SuffixTokens ==
  << << "teuk", "byeol", "si" >>,
     << "gwang", "xyeok", "si" >>,
     << "teuk", "byeol", "ja", "chi", "si" >>,
     << "teuk", "byeol", "ja", "chi", "do" >>,
     << "do" >>, << "si" >>, << "gun" >>, << "gu" >> >>

\* the characters String.prototype.trim removes
WhiteSpace == { " ", "\t" }

\* token tok occurs in str at position i
TokenAt(str, i, tok) ==
  /\ i + Len(tok) - 1 <= Len(str)
  /\ \A j \in 1..Len(tok) : str[i + j - 1] = tok[j]

\* str.replace(/.../g, ''): scan left to right; at each position the first
\* alternative that matches is removed, otherwise the character is kept
RECURSIVE ReplaceAll(_, _)
ReplaceAll(str, i) ==
  IF i > Len(str) THEN << >>
  ELSE LET m == { k \in 1..Len(SuffixTokens) : TokenAt(str, i, SuffixTokens[k]) }
       IN  IF m = {} THEN << str[i] >> \o ReplaceAll(str, i + 1)
           ELSE ReplaceAll(str, i + Len(SuffixTokens[Min(m)]))

\* String.prototype.trim
trim(str) ==
  LET keep == { i \in 1..Len(str) : str[i] \notin WhiteSpace }
  IN  IF keep = {} THEN << >> ELSE SubSeq(str, Min(keep), Max(keep))

\* the replacement without the g flag: only the leftmost match is removed
RECURSIVE ReplaceFirst(_, _)
ReplaceFirst(str, i) ==
  IF i > Len(str) THEN << >>
  ELSE LET m == { k \in 1..Len(SuffixTokens) : TokenAt(str, i, SuffixTokens[k]) }
       IN  IF m = {} THEN << str[i] >> \o ReplaceFirst(str, i + 1)
           ELSE SubSeq(str, i + Len(SuffixTokens[Min(m)]), Len(str))

cleanRegionName_FirstOnly(name) == trim(ReplaceFirst(name, 1))

cleanRegionName(name) == trim(ReplaceAll(name, 1))

isSameRegion(name1, name2) ==
  IF name1 = name2 THEN TRUE
  ELSE LET clean1 == cleanRegionName(name1)
           clean2 == cleanRegionName(name2)
       IN  clean1 = clean2 \/ includes(clean1, clean2) \/ includes(clean2, clean1)

-----------------------------------------------------------------------------
(* src/data/clients.ts: customer records and the aggregation helpers *)

\* region names used by the sample records
Seoul_KR       == <<"seo", "xul", "teuk", "byeol", "si">>
Seoul_ABBR     == <<"seo", "xul">>
Gyeongnam_ABBR == <<"gyeong", "nam">>
Gyeonggi_KR    == <<"gyeong", "gi", "do">>
Gwangju_KR     == <<"gwang", "ju", "gwang", "xyeok", "si">>
Dong_gu        == <<"dong", "gu">>
Gangdong_gu    == <<"gang", "dong", "gu">>
Seoul_si       == <<"seo", "xul", "si">>
Gangseo_gu     == <<"gang", "seo", "gu">>
\* the bucket aggregateByRegion / aggregateBySubRegion use for a record without a key
ETC            == <<"gi", "ta">>

Client(n, r, sr, c, u) ==
  [name |-> n, region |-> r, subRegion |-> sr, charge |-> c, usage |-> u]

\* Records the parent may hand to the map: seed records of clients.ts and
\* records of the shapes the Client interface allows (abbreviated province,
\* informal province name, empty region).
SampleClients ==
  { Client("Seoul Office of Education", Seoul_KR, undefined, 106292168, 534491),
    Client("APQA Plant Quarantine", Gyeonggi_KR, undefined, 214686, 1112),
    Client("Gwangju Dong-gu Office", Gwangju_KR, Dong_gu, 2236987, 13861),
    Client("Gangdong-gu Office", Seoul_KR, Gangdong_gu, 3993167, 24797),
    Client("Gangseo-gu Office", Seoul_KR, Gangseo_gu, 1083216, 8744),
    Client("Gangseo-gu Council", Seoul_KR, Gangseo_gu, 7918, 40),
    Client("BaroAI", undefined, undefined, 39037887, 186264),
    Client("Seoul branch", Seoul_ABBR, undefined, 99999, 10),
    Client("Gyeongnam branch", Gyeongnam_ABBR, undefined, 100000, 20),
    Client("Seoul liaison", Seoul_si, undefined, 250000, 30),
    Client("Gyeonggi annex", Gyeonggi_KR, undefined, 100000, 15),
    Client("Unplaced", << >>, undefined, 500, 5) }

\* AggregatedData
AggregatedData(c, u, it) == [charge |-> c, usage |-> u, items |-> it]

\* A Record<string, AggregatedData> is the sequence of its entries in key
\* insertion order (all keys are non-numeric strings).
HasKey(result, key) == \E i \in 1..Len(result) : result[i].key = key
At(result, key) == result[CHOOSE i \in 1..Len(result) : result[i].key = key].value

\* Accumulate adding the charge to both totals
Accumulate_ChargeTwice(result, key, item) ==
  LET created == IF HasKey(result, key) THEN result
                 ELSE Append(result, [key |-> key, value |-> AggregatedData(0, 0, << >>)])
  IN  [i \in 1..Len(created) |->
         IF created[i].key = key
           THEN [key |-> key,
                 value |-> AggregatedData(created[i].value.charge + item.charge,
                                          created[i].value.usage + item.charge,
                                          Append(created[i].value.items, item))]
           ELSE created[i]]

\* an accumulation that puts the record in front of items (unshift)
Accumulate_Prepend(result, key, item) ==
  LET created == IF HasKey(result, key) THEN result
                 ELSE Append(result, [key |-> key, value |-> AggregatedData(0, 0, << >>)])
  IN  [i \in 1..Len(created) |->
         IF created[i].key = key
           THEN [key |-> key,
                 value |-> AggregatedData(created[i].value.charge + item.charge,
                                          created[i].value.usage + item.usage,
                                          << item >> \o created[i].value.items)]
           ELSE created[i]]

\* if (!result[key]) result[key] = {charge: 0, usage: 0, items: []};
\* result[key].charge += item.charge; result[key].usage += item.usage;
\* result[key].items.push(item)
Accumulate(result, key, item) ==
  LET created == IF HasKey(result, key) THEN result
                 ELSE Append(result, [key |-> key, value |-> AggregatedData(0, 0, << >>)])
  IN  [i \in 1..Len(created) |->
         IF created[i].key = key
           THEN [key |-> key,
                 value |-> AggregatedData(created[i].value.charge + item.charge,
                                          created[i].value.usage + item.usage,
                                          Append(created[i].value.items, item))]
           ELSE created[i]]

\* a grouping key that ignores subRegion
GroupKey_RegionOnly(item, t) == item.region

\* the grouping key of KoreaMap's aggregatedData
GroupKey(item, t) ==
  IF t = "province" THEN item.region ELSE Or(item.subRegion, item.region)

\* a forEach body that buckets a record without a key instead of skipping it
AggregateItem_Bucket(result, item, t) ==
  Accumulate(result, Or(GroupKey(item, t), ETC), item)

\* a forEach body that accepts no key after the first one
AggregateItem_SingleKey(result, item, t) ==
  LET key == GroupKey(item, t)
  IN  IF ~Truthy(key) \/ (result # << >> /\ ~HasKey(result, key)) THEN result
      ELSE Accumulate(result, key, item)

\* the body of data.forEach(item => {...}) in KoreaMap's aggregatedData
AggregateItem(result, item, t) ==
  LET key == GroupKey(item, t)
  IN  IF ~Truthy(key) THEN result ELSE Accumulate(result, key, item)

\* KoreaMap: aggregatedData = useMemo(() => {...}, [data, type])
RECURSIVE AggregateFrom(_, _, _, _)
AggregateFrom(records, t, i, result) ==
  IF i > Len(records) THEN result
  ELSE AggregateFrom(records, t, i + 1, AggregateItem(result, records[i], t))

Aggregate(records, t) == AggregateFrom(records, t, 1, << >>)

\* the body of data.forEach(item => {...}) in aggregateByRegion
ByRegionItem(result, item) == Accumulate(result, Or(item.region, ETC), item)

\* clients.ts: aggregateByRegion(data)
RECURSIVE aggregateByRegionFrom(_, _, _)
aggregateByRegionFrom(records, i, result) ==
  IF i > Len(records) THEN result
  ELSE aggregateByRegionFrom(records, i + 1, ByRegionItem(result, records[i]))

aggregateByRegion(records) == aggregateByRegionFrom(records, 1, << >>)

\* the body of data.forEach(item => {...}) in aggregateBySubRegion
BySubRegionItem(result, item) ==
  Accumulate(result, Or(Or(item.subRegion, item.region), ETC), item)

\* clients.ts: aggregateBySubRegion(data)
RECURSIVE aggregateBySubRegionFrom(_, _, _)
aggregateBySubRegionFrom(records, i, result) ==
  IF i > Len(records) THEN result
  ELSE aggregateBySubRegionFrom(records, i + 1, BySubRegionItem(result, records[i]))

aggregateBySubRegion(records) == aggregateBySubRegionFrom(records, 1, << >>)

-----------------------------------------------------------------------------
(* src/components/KoreaMap.tsx: matching a geometry feature to an aggregate *)

\* "no result"
null == [null |-> TRUE]

\* a result that carries the first aggregate of the map instead of the key's own
Match_FirstEntry(k, agg, kn) == [key |-> k, data |-> agg[1].value, koreanName |-> kn]

Match(k, agg, kn) == [key |-> k, data |-> At(agg, k), koreanName |-> kn]

\* Object.keys(aggregatedData).find(pred), hits being the positions of the keys
\* that satisfy pred: the first of them in insertion order
FirstKey(agg, hits) == IF hits = {} THEN undefined ELSE agg[Min(hits)].key

\* findProvinceData without its exact-match step
findProvinceData_NoExact(englishName, agg) ==
  LET koreanName == toKoreanName(englishName, "province")
      matchKey == FirstKey(agg, { i \in 1..Len(agg) : isSameRegion(koreanName, agg[i].key) })
  IN  IF Truthy(matchKey) THEN Match(matchKey, agg, koreanName) ELSE null

\* findProvinceData taking the last key that matches instead of the first
findProvinceData_LastKey(englishName, agg) ==
  LET koreanName == toKoreanName(englishName, "province")
  IN  IF HasKey(agg, koreanName) THEN Match(koreanName, agg, koreanName)
      ELSE LET m == { i \in 1..Len(agg) : isSameRegion(koreanName, agg[i].key) }
           IN  IF m = {} THEN null ELSE Match(agg[Max(m)].key, agg, koreanName)

findProvinceData(englishName, agg) ==
  LET koreanName == toKoreanName(englishName, "province")
  IN  IF HasKey(agg, koreanName) THEN Match(koreanName, agg, koreanName)
      ELSE LET matchKey ==
                 FirstKey(agg, { i \in 1..Len(agg) : isSameRegion(koreanName, agg[i].key) })
           IN  IF Truthy(matchKey) THEN Match(matchKey, agg, koreanName) ELSE null

\* Object.entries(MUNICIPALITY_KR_TO_EN).find(([, en]) => en === englishName2)?.[0]
\* for every external name: the first entry, in entry order, that carries it
FirstEntryByValue ==
  [en \in { MUNICIPALITY_KR_TO_EN_ENTRIES[i][2] : i \in 1..Len(MUNICIPALITY_KR_TO_EN_ENTRIES) } |->
     MUNICIPALITY_KR_TO_EN_ENTRIES[
       Min({ i \in 1..Len(MUNICIPALITY_KR_TO_EN_ENTRIES) : MUNICIPALITY_KR_TO_EN_ENTRIES[i][2] = en })][1]]

FirstKoreanOf(englishName2) ==
  IF englishName2 \in DOMAIN FirstEntryByValue THEN FirstEntryByValue[englishName2] ELSE undefined

findMunicipalityData(englishName2, agg) ==
  LET koreanName == Or(FirstKoreanOf(englishName2), englishName2)
  IN  IF HasKey(agg, koreanName) THEN Match(koreanName, agg, koreanName)
      ELSE LET cleanName == cleanRegionName(koreanName)
               Partial(key) ==
                 LET cleanKey == cleanRegionName(key)
                 IN  cleanKey = cleanName \/ includes(cleanKey, cleanName)
                                          \/ includes(cleanName, cleanKey)
               matchKey == FirstKey(agg, { i \in 1..Len(agg) : Partial(agg[i].key) })
           IN  IF Truthy(matchKey) THEN Match(matchKey, agg, koreanName) ELSE null

-----------------------------------------------------------------------------
(* src/components/KoreaMap.tsx: the drawn map and its handlers *)

\* pocThreshold = 100000 (default prop)
pocThreshold == 100000

\* external names of the sample features
EN_Seoul     == <<"S", "e", "o", "u", "l">>
EN_Gyeongnam == <<"G", "y", "e", "o", "n", "g", "s", "a", "n", "g", "n", "a", "m", "-", "d", "o">>
EN_Gyeonggi  == <<"G", "y", "e", "o", "n", "g", "g", "i", "-", "d", "o">>
EN_Gwangju   == <<"G", "w", "a", "n", "g", "j", "u">>
EN_Busan     == <<"B", "u", "s", "a", "n">>
EN_Atlantis  == <<"A", "t", "l", "a", "n", "t", "i", "s">>
EN_Dong      == <<"D", "o", "n", "g">>
EN_Gangdong  == <<"G", "a", "n", "g", "d", "o", "n", "g">>
EN_Gangseo   == <<"G", "a", "n", "g", "s", "e", "o">>
EN_Songpa    == <<"S", "o", "n", "g", "p", "a">>

\* GeoJSON.Feature properties
Feature(n1, n2, n) == [NAME_1 |-> n1, NAME_2 |-> n2, name |-> n]

\* geojson.features of the geometry file loaded for the level
\* (GEOJSON_URLS[type]); the last one of each level carries no name property
Features(t) ==
  IF t = "province"
    THEN << Feature(EN_Seoul, undefined, undefined),
            Feature(EN_Gyeongnam, undefined, undefined),
            Feature(EN_Gyeonggi, undefined, undefined),
            Feature(EN_Gwangju, undefined, undefined),
            Feature(EN_Atlantis, undefined, undefined),
            Feature(undefined, undefined, undefined) >>
    ELSE << Feature(EN_Gwangju, EN_Dong, undefined),
            Feature(EN_Busan, EN_Dong, undefined),
            Feature(EN_Seoul, EN_Gangdong, undefined),
            Feature(EN_Seoul, EN_Gangseo, undefined),
            Feature(EN_Seoul, EN_Songpa, undefined),
            Feature(undefined, undefined, undefined) >>

\* the paths of the drawn map, one per feature, in the order of geojson.features
Paths(t) == 1..Len(Features(t))

getRegionName(d, t) ==
  IF t = "municipality"
    THEN Or(Or(d.NAME_2, d.name), << >>)
    ELSE Or(Or(d.NAME_1, d.name), << >>)

\* type === 'province' ? findProvinceData(name) : findMunicipalityData(name)
FindData(d, t, agg) ==
  IF t = "province" THEN findProvinceData(getRegionName(d, t), agg)
                    ELSE findMunicipalityData(getRegionName(d, t), agg)

NO_DATA_FILL == "#f1f5f9"
POC_FILL     == "#cbd5e1"

\* a fill decision that treats a PoC region as a region without data
getFillColor_PocAsNoData(d, t, agg) ==
  LET match == FindData(d, t, agg)
  IN  IF match = null \/ match.data.charge < pocThreshold THEN NO_DATA_FILL
      ELSE "colorScale(charge)"

\* a fill decision that counts a charge equal to the threshold as PoC
getFillColor_Inclusive(d, t, agg) ==
  LET match == FindData(d, t, agg)
  IN  IF match = null THEN NO_DATA_FILL
      ELSE IF match.data.charge <= pocThreshold THEN POC_FILL
      ELSE "colorScale(charge)"

getFillColor(d, t, agg) ==
  LET match == FindData(d, t, agg)
  IN  IF match = null THEN NO_DATA_FILL
      ELSE IF match.data.charge < pocThreshold THEN POC_FILL
      ELSE "colorScale(charge)"

\* items.slice(0, 3).map(i => i.name)
FirstNames(items) == [i \in 1..(IF Len(items) < 3 THEN Len(items) ELSE 3) |-> items[i].name]

\* a tooltip that is titled with the matched key
TooltipContent_MatchedKey(d, t, match) ==
  LET name == getRegionName(d, t)
      name1 == Or(d.NAME_1, << >>)
      displayName == IF match # null THEN match.key ELSE toKoreanName(name, t)
  IN  [ displayName  |-> displayName,
        isPoc        |-> match # null /\ match.data.charge < pocThreshold,
        parentRegion |-> IF t = "municipality" THEN toKoreanName(name1, "province") ELSE << >>,
        noData       |-> match = null,
        charge       |-> IF match = null THEN 0 ELSE match.data.charge,
        usage        |-> IF match = null THEN 0 ELSE match.data.usage,
        names        |-> IF match = null THEN << >> ELSE FirstNames(match.data.items) ]

\* getTooltipContent(d), match being the result of its FindData call
TooltipContent(d, t, match) ==
  LET name == getRegionName(d, t)
      name1 == Or(d.NAME_1, << >>)
      displayName == IF match # null /\ Truthy(match.koreanName)
                       THEN match.koreanName ELSE toKoreanName(name, t)
  IN  [ displayName  |-> displayName,
        isPoc        |-> match # null /\ match.data.charge < pocThreshold,
        parentRegion |-> IF t = "municipality" THEN toKoreanName(name1, "province") ELSE << >>,
        noData       |-> match = null,
        charge       |-> IF match = null THEN 0 ELSE match.data.charge,
        usage        |-> IF match = null THEN 0 ELSE match.data.usage,
        names        |-> IF match = null THEN << >> ELSE FirstNames(match.data.items) ]

\* the arguments the click handler passes to onRegionSelect, match being the
\* result of its FindData call
Selection(d, t, match) ==
  LET name == getRegionName(d, t)
  IN  [ region |-> IF match # null /\ Truthy(match.koreanName)
                     THEN match.koreanName ELSE toKoreanName(name, t),
        data   |-> IF match = null THEN null ELSE match.data ]

\* JavaScript runs one handler at a time: call holds the handler (or helper
\* call) that is running, with what it computed, until it returns
NoCall == [op |-> "none"]

Idle == call = NoCall

\* the map rendered by a parent other than Home: no Home state
NoPage ==
  /\ activeTab = "education"
  /\ showPoc = TRUE
  /\ selectedRegion = null
  /\ seed = [tab \in {"education"} |-> << >>]

\* the geometry is loaded and the map drawn; no remote store in play
NoRest ==
  /\ loading = FALSE
  /\ error = null
  /\ retryCount = 0
  /\ loads = << >>
  /\ remote = null
  /\ contractInfos = << >>
  /\ userMetrics = << >>
  /\ alerts = 0

TypeOK ==
  /\ type \in {"province", "municipality"}
  /\ Len(data) <= MaxRecords
  /\ \A i \in 1..Len(data) : data[i] \in SampleClients
  /\ DOMAIN painted = Paths(type)

Init ==
  /\ data = << >>
  /\ type = "province"
  /\ aggregatedData = Aggregate(data, type)
  /\ painted = [p \in Paths(type) |-> getFillColor(Features(type)[p], type, aggregatedData)]
  /\ call = NoCall
  /\ input = << >>
  /\ out = << >>
  /\ NoPage
  /\ NoRest

\* The parent renders the map with props (d, t): the aggregate is recomputed
\* and the effect redraws every feature.
Rerender(d, t) ==
  /\ Idle
  /\ data' = d
  /\ type' = t
  /\ aggregatedData' = Aggregate(d, t)
  /\ painted' = [p \in Paths(t) |-> getFillColor(Features(t)[p], t, aggregatedData')]
  /\ UNCHANGED << call, input, out, rest >>

AddRecord(r) ==
  /\ Len(data) < MaxRecords
  /\ Rerender(Append(data, r), type)
  /\ UNCHANGED page

ClearRecords ==
  /\ data # << >>
  /\ Rerender(<< >>, type)
  /\ UNCHANGED page

SetType(t) ==
  /\ t # type
  /\ Rerender(data, t)
  /\ UNCHANGED page

\* .on('mouseenter', ...) of path p
MouseEnter(p) ==
  /\ Idle
  /\ LET d == Features(type)[p]
         match == FindData(d, type, aggregatedData)
     IN  call' = [op |-> "mouseenter", path |-> p, match |-> match,
                  tooltip |-> TooltipContent(d, type, match)]
  /\ UNCHANGED << data, type, aggregatedData, painted, input, out, page, rest >>

\* .on('click', ...) of path p
Click(p) ==
  /\ Idle
  /\ LET d == Features(type)[p]
         match == FindData(d, type, aggregatedData)
     IN  call' = [op |-> "click", path |-> p, match |-> match,
                  selection |-> Selection(d, type, match)]
  /\ UNCHANGED << data, type, aggregatedData, painted, input, out, page, rest >>

\* a caller of the clients.ts helpers on the current records
CallAggregateByRegion ==
  /\ Idle
  /\ call' = [op |-> "aggregateByRegion", result |-> aggregateByRegion(data)]
  /\ UNCHANGED << data, type, aggregatedData, painted, input, out, page, rest >>

CallAggregateBySubRegion ==
  /\ Idle
  /\ call' = [op |-> "aggregateBySubRegion", result |-> aggregateBySubRegion(data)]
  /\ UNCHANGED << data, type, aggregatedData, painted, input, out, page, rest >>

\* the running handler or helper call returns
Return ==
  /\ ~Idle
  /\ call' = NoCall
  /\ UNCHANGED << data, type, aggregatedData, painted, input, out, page, rest >>

Next ==
  \/ \E r \in SampleClients : AddRecord(r)
  \/ ClearRecords
  \/ \E t \in {"province", "municipality"} : SetType(t)
  \/ \E p \in Paths(type) : MouseEnter(p)
  \/ \E p \in Paths(type) : Click(p)
  \/ CallAggregateByRegion
  \/ CallAggregateBySubRegion
  \/ Return

Spec == Init /\ [][Next]_vars

-----------------------------------------------------------------------------
(* Normalisation run: cleanRegionName applied to a string and to its own output *)

CleanAlphabet ==
  { "teuk", "byeol", "ja", "chi", "gwang", "xyeok", "si", "do", "gun", "gu", " ", "seo" }

Strings(n) == UNION { [1..k -> CleanAlphabet] : k \in 0..n }

InitClean ==
  /\ input \in Strings(MaxLen)
  /\ out = << >>
  /\ data = << >>
  /\ type = "province"
  /\ aggregatedData = Aggregate(data, type)
  /\ painted = [p \in Paths(type) |-> getFillColor(Features(type)[p], type, aggregatedData)]
  /\ call = NoCall
  /\ NoPage
  /\ NoRest

Clean ==
  /\ Len(out) < 2
  /\ out' = Append(out, cleanRegionName(IF out = << >> THEN input ELSE out[Len(out)]))
  /\ UNCHANGED << data, type, aggregatedData, painted, call, input, page, rest >>

NextClean == Clean

SpecClean == InitClean /\ [][NextClean]_vars

-----------------------------------------------------------------------------
(* Translation run: toKoreanName / toEnglishName applied to a name and to *)
(* each other's result                                                     *)

\* number of translations of one run
MaxCalls == 2

Levels == { "province", "municipality" }

KeysOf(entries) == { entries[i][1] : i \in 1..Len(entries) }
ValuesOf(entries) == { entries[i][2] : i \in 1..Len(entries) }

\* names handed to the translation: every key and value of the three tables,
\* names no table holds, and names every object inherits
NameInputs ==
  KeysOf(PROVINCE_EN_TO_KR_ENTRIES) \cup ValuesOf(PROVINCE_EN_TO_KR_ENTRIES)
    \cup KeysOf(MUNICIPALITY_KR_TO_EN_ENTRIES) \cup ValuesOf(MUNICIPALITY_KR_TO_EN_ENTRIES)
    \cup KeysOf(PROVINCE_ABBR_TO_EN_ENTRIES) \cup ValuesOf(PROVINCE_ABBR_TO_EN_ENTRIES)
    \cup { EN_Atlantis, << >>, Seoul_si, ETC }
    \cup OBJECT_PROTOTYPE_KEYS

InitNames ==
  /\ input \in NameInputs
  /\ out = << >>
  /\ data = << >>
  /\ type = "province"
  /\ aggregatedData = Aggregate(data, type)
  /\ painted = [p \in Paths(type) |-> getFillColor(Features(type)[p], type, aggregatedData)]
  /\ call = NoCall
  /\ NoPage
  /\ NoRest

\* the name the next translation is given: the input, then the last result
Argument == IF out = << >> THEN input ELSE out[Len(out)].result

CallToKoreanName(level) ==
  /\ Len(out) < MaxCalls
  /\ out' = Append(out, [fn |-> "toKoreanName", level |-> level, arg |-> Argument,
                         result |-> toKoreanName(Argument, level)])
  /\ UNCHANGED << data, type, aggregatedData, painted, call, input, page, rest >>

CallToEnglishName(level) ==
  /\ Len(out) < MaxCalls
  /\ out' = Append(out, [fn |-> "toEnglishName", level |-> level, arg |-> Argument,
                         result |-> toEnglishName(Argument, level)])
  /\ UNCHANGED << data, type, aggregatedData, painted, call, input, page, rest >>

NextNames ==
  \/ \E level \in Levels : CallToKoreanName(level)
  \/ \E level \in Levels : CallToEnglishName(level)

SpecNames == InitNames /\ [][NextNames]_vars

-----------------------------------------------------------------------------
(* src/app/page.tsx: the Home page around the map *)

POC_THRESHOLD == 100000

Tabs == { "education", "local", "central", "public", "private" }

\* TAB_CONFIG, the fields that decide what is rendered
TAB_CONFIG ==
  [ education |-> [hasMap |-> TRUE,  mapType |-> "province"],
    local     |-> [hasMap |-> TRUE,  mapType |-> "municipality"],
    central   |-> [hasMap |-> FALSE, mapType |-> "undefined"],
    public    |-> [hasMap |-> FALSE, mapType |-> "undefined"],
    private   |-> [hasMap |-> FALSE, mapType |-> "undefined"] ]

\* region names of the seed records below
Sejong_KR    == <<"se", "jong", "teuk", "byeol", "ja", "chi", "si">>
Gangwon_KR   == <<"gang", "xwon", "teuk", "byeol", "ja", "chi", "do">>
Gyeongnam_KR == <<"gyeong", "sang", "nam", "do">>

\* seed arrays of clients.ts (an excerpt of each, in the order of the file)
educationData ==
  << Client("Seoul Office of Education", Seoul_KR, undefined, 106292168, 534491),
     Client("Sejong Office of Education", Sejong_KR, undefined, 92657, 379) >>
centralGovData ==
  << Client("APQA Plant Quarantine", Gyeonggi_KR, undefined, 214686, 1112) >>
provinceGovData ==
  << Client("Gyeongsangnam-do Office", Gyeongnam_KR, undefined, 15462, 27) >>
publicInstitutionData ==
  << Client("Korea National Park Service", Gangwon_KR, undefined, 4206435, 15791) >>
privateData ==
  << Client("BaroAI", undefined, undefined, 39037887, 186264) >>
universityData ==
  << Client("Soongeui Women's University", Seoul_KR, undefined, 31799, 100) >>

\* records of localGovData; the array itself is an input of the page
LocalSample ==
  { Client("Gwangju Dong-gu Office", Gwangju_KR, Dong_gu, 2236987, 13861),
    Client("Gangdong-gu Office", Seoul_KR, Gangdong_gu, 3993167, 24797),
    Client("Gangseo-gu Office", Seoul_KR, Gangseo_gu, 1083216, 8744),
    Client("Gangseo-gu Council", Seoul_KR, Gangseo_gu, 7918, 40) }

Arrays(S, n) == UNION { [1..k -> S] : k \in 0..n }

\* TAB_CONFIG[tab].data for every tab, localGovData being the array given
SeedOf(localGovData) ==
  [ education |-> educationData,
    local     |-> localGovData,
    central   |-> centralGovData,
    public    |-> publicInstitutionData \o provinceGovData,
    private   |-> privateData \o universityData ]

\* the comparator (a, b) => b.charge - a.charge puts x behind every element
\* whose charge is not smaller (Array.prototype.sort is stable)
InsertByCharge(sorted, x) ==
  LET k == Cardinality({ i \in 1..Len(sorted) : sorted[i].charge >= x.charge })
  IN  SubSeq(sorted, 1, k) \o << x >> \o SubSeq(sorted, k + 1, Len(sorted))

RECURSIVE SortFrom(_, _, _)
SortFrom(arr, i, sorted) ==
  IF i > Len(arr) THEN sorted
  ELSE SortFrom(arr, i + 1, InsertByCharge(sorted, arr[i]))

\* the order arr.sort((a, b) => b.charge - a.charge) leaves
sortByCharge(arr) == SortFrom(arr, 1, << >>)

\* item.charge >= POC_THRESHOLD
NotPoc(item) == item.charge >= POC_THRESHOLD

\* item.charge < POC_THRESHOLD
IsPoc(item) == item.charge < POC_THRESHOLD

\* pocCount
pocCount(sd, tab) == Len(SelectSeq(sd[tab], IsPoc))

\* filteredData mutant: the switch is ignored
filteredData_Unfiltered(sd, tab, sp) == sd[tab]

\* filteredData: the seed array itself when PoC customers are shown, a
\* filtered copy when they are not
filteredData(sd, tab, sp) ==
  IF sp THEN sd[tab] ELSE SelectSeq(sd[tab], NotPoc)

\* sortedData mutant: filteredData.sort(...) without the copy
sortedData_InPlace(arr) ==
  [list |-> sortByCharge(arr), filteredData |-> sortByCharge(arr)]

\* sortedData = [...filteredData].sort(...): the list rendered, and the array
\* filteredData afterwards
sortedData(arr) ==
  [list |-> sortByCharge(arr), filteredData |-> arr]

\* the seed arrays after Home has computed sortedData for (tab, sp)
SeedAfterRender(sd, tab, sp) ==
  IF sp THEN [sd EXCEPT ![tab] = sortedData(sd[tab]).filteredData] ELSE sd

\* the selected-region panel is shown
PanelShown(sel) == sel # null /\ sel.data # null

\* selectedRegion.data.items.sort(...) of the panel and of the client list:
\* the items array of the selected aggregate is sorted in place
SortedSelection(sel) ==
  IF PanelShown(sel)
    THEN [sel EXCEPT !.data = [sel.data EXCEPT !.items = sortByCharge(sel.data.items)]]
    ELSE sel

\* selectedRegion.data is the aggregate object the map handed out (shared):
\* sorting its items sorts the items of that entry of aggregatedData
SortedShared(agg, sel) ==
  IF PanelShown(sel) /\ sel.shared
    THEN [i \in DOMAIN agg |->
            IF agg[i].key = sel.key
              THEN [agg[i] EXCEPT !.value = [agg[i].value EXCEPT
                                               !.items = sortByCharge(agg[i].value.items)]]
              ELSE agg[i]]
    ELSE agg

\* the map recomputes aggregatedData: selectedRegion.data keeps the old object
Detached(sel) == IF sel = null THEN sel ELSE [sel EXCEPT !.shared = FALSE]

InitPage ==
  /\ \E localGovData \in Arrays(LocalSample, MaxRecords) : seed = SeedOf(localGovData)
  /\ activeTab = "education"
  /\ showPoc = TRUE
  /\ selectedRegion = null
  /\ data = filteredData(seed, activeTab, showPoc)
  /\ type = TAB_CONFIG[activeTab].mapType
  /\ aggregatedData = Aggregate(data, type)
  /\ painted = [p \in Paths(type) |-> getFillColor(Features(type)[p], type, aggregatedData)]
  /\ call = NoCall
  /\ input = << >>
  /\ out = << >>
  /\ NoRest

\* Home renders tab with PoC switch sp: <KoreaMap data={filteredData}
\* type={config.mapType}/> when the tab has a map, no map otherwise (kept as
\* the map of no records)
RenderMap(tab, sp, sd) ==
  IF TAB_CONFIG[tab].hasMap
    THEN Rerender(filteredData(sd, tab, sp), TAB_CONFIG[tab].mapType)
    ELSE Rerender(<< >>, type)

handleTabChange(tab) ==
  /\ tab # activeTab
  /\ activeTab' = tab
  /\ selectedRegion' = null
  /\ seed' = SeedAfterRender(seed, tab, showPoc)
  /\ RenderMap(tab, showPoc, seed')
  /\ UNCHANGED showPoc

handleTogglePoc ==
  /\ showPoc' = ~showPoc
  /\ seed' = SeedAfterRender(seed, activeTab, showPoc')
  /\ selectedRegion' = SortedSelection(Detached(selectedRegion))
  /\ RenderMap(activeTab, showPoc', seed')
  /\ UNCHANGED activeTab

\* click on path p of the map: the handler calls onRegionSelect =
\* handleRegionSelect, and Home renders the panel and the list of the selection
handleRegionSelect(p) ==
  /\ Idle
  /\ TAB_CONFIG[activeTab].hasMap
  /\ LET d == Features(type)[p]
         match == FindData(d, type, aggregatedData)
         s == Selection(d, type, match)
         sel == [name |-> s.region, data |-> s.data,
                 key |-> IF match = null THEN undefined ELSE match.key,
                 shared |-> match # null]
     IN  /\ call' = [op |-> "click", path |-> p, match |-> match, selection |-> s]
         /\ selectedRegion' = SortedSelection(sel)
         /\ aggregatedData' = SortedShared(aggregatedData, sel)
  /\ UNCHANGED << data, type, painted, input, out, activeTab, showPoc, seed, rest >>

\* onClick={() => setSelectedRegion(null)} of the panel
closeSelection ==
  /\ Idle
  /\ PanelShown(selectedRegion)
  /\ selectedRegion' = null
  /\ UNCHANGED << data, type, aggregatedData, painted, call, input, out,
                  activeTab, showPoc, seed, rest >>

\* mouseenter on path p of the map Home shows
hover(p) ==
  /\ TAB_CONFIG[activeTab].hasMap
  /\ MouseEnter(p)

NextPage ==
  \/ \E tab \in Tabs : handleTabChange(tab)
  \/ handleTogglePoc
  \/ \E p \in Paths(type) : handleRegionSelect(p)
  \/ closeSelection
  \/ \E p \in Paths(type) : hover(p)
  \/ Return

SpecPage == InitPage /\ [][NextPage]_vars

\* KoreaMap's memo holds what the aggregation produced for its props
AggregateAsProduced == aggregatedData = Aggregate(data, type)

\* C11: an aggregate is never mutated after the aggregation call that produced
\* it: whatever regions are clicked and hovered and whatever panels are
\* rendered, every aggregate of the map keeps the items (same records, in
\* input order) and the totals the aggregation gave it.
AggregateNeverMutated == AggregateAsProduced

-----------------------------------------------------------------------------
(* src/components/KoreaMap.tsx: loading the geometry *)

MAX_RETRIES == 3

\* most drawMap calls of one run
MaxLoads == 2

\* what one d3.json call can yield: a response, an empty response, a rejection
FetchOutcomes == { "response", "empty", "error" }

\* the message setError is given in the catch block of drawMap
LOAD_ERROR == [message |-> "map load failed"]

\* drawMap has called fetchWithRetry(url): retries = MAX_RETRIES, nothing tried
NewLoad ==
  [phase |-> "fetch", retries |-> MAX_RETRIES, attempts |-> 0, failures |-> 0,
   last |-> "none"]

\* the fetchWithRetry call has returned or thrown
Settled(l) == l.phase \in { "returned", "thrown" }

\* fetchWithRetry mutant: the catch block throws without looking at retries
AfterAttempt_NoRetry(l, outcome) ==
  LET tried == [l EXCEPT !.attempts = @ + 1, !.last = outcome]
  IN  IF outcome = "response" THEN [tried EXCEPT !.phase = "returned"]
      ELSE [tried EXCEPT !.failures = @ + 1, !.phase = "thrown"]

\* fetchWithRetry after d3.json has settled with outcome: return the
\* response; on an empty response or a rejection wait and call itself with
\* retries - 1 if retries > 0, throw otherwise
AfterAttempt(l, outcome) ==
  LET tried == [l EXCEPT !.attempts = @ + 1, !.last = outcome]
  IN  IF outcome = "response" THEN [tried EXCEPT !.phase = "returned"]
      ELSE IF l.retries > 0
             THEN [tried EXCEPT !.failures = @ + 1, !.phase = "delay"]
             ELSE [tried EXCEPT !.failures = @ + 1, !.phase = "thrown"]

InitLoad ==
  /\ loading = TRUE
  /\ error = null
  /\ retryCount = 0
  /\ loads = << NewLoad >>
  /\ data = educationData
  /\ type \in { "province", "municipality" }
  /\ aggregatedData = Aggregate(data, type)
  /\ painted = [p \in Paths(type) |-> NO_DATA_FILL]
  /\ call = NoCall
  /\ input = << >>
  /\ out = << >>
  /\ NoPage
  /\ remote = null
  /\ contractInfos = << >>
  /\ userMetrics = << >>
  /\ alerts = 0

\* a dependency of the effect changes (a new array of the same records, a
\* new onRegionSelect, ...): the effect runs again and starts drawMap
runEffect ==
  /\ Len(loads) < MaxLoads
  /\ loading' = TRUE
  /\ error' = null
  /\ loads' = Append(loads, NewLoad)
  /\ UNCHANGED << data, type, aggregatedData, painted, call, input, out, page,
                  retryCount, sheets >>

\* the d3.json call of load i settles; when fetchWithRetry returns or throws,
\* drawMap goes on: it draws and clears loading and retryCount, or it sets
\* the error and clears loading
fetchSettles(i, outcome) ==
  /\ loads[i].phase = "fetch"
  /\ LET l == AfterAttempt(loads[i], outcome)
     IN  /\ loads' = [loads EXCEPT ![i] = l]
         /\ loading' = IF Settled(l) THEN FALSE ELSE loading
         /\ error' = IF l.phase = "thrown" THEN LOAD_ERROR ELSE error
         /\ retryCount' = IF l.phase = "returned" THEN 0 ELSE retryCount
         /\ painted' = IF l.phase = "returned" /\ i = Len(loads)
                          THEN [p \in Paths(type) |->
                                  getFillColor(Features(type)[p], type, aggregatedData)]
                          ELSE painted
  /\ UNCHANGED << data, type, aggregatedData, call, input, out, page, sheets >>

\* await delay(RETRY_DELAY) of load i is over: fetchWithRetry(url, retries - 1)
delayElapses(i) ==
  /\ loads[i].phase = "delay"
  /\ loads' = [loads EXCEPT ![i] = [@ EXCEPT !.phase = "fetch", !.retries = @ - 1]]
  /\ UNCHANGED << data, type, aggregatedData, painted, call, input, out, page,
                  loading, error, retryCount, sheets >>

\* the retry button, rendered while an error is shown and retryCount < MAX_RETRIES
handleRetry ==
  /\ error # null
  /\ retryCount < MAX_RETRIES
  /\ retryCount' = retryCount + 1
  /\ error' = null
  /\ loading' = TRUE
  /\ UNCHANGED << data, type, aggregatedData, painted, call, input, out, page,
                  loads, sheets >>

\* the network and the timers of the loads under way
Network ==
  \/ \E i \in 1..Len(loads) : \E outcome \in FetchOutcomes : fetchSettles(i, outcome)
  \/ \E i \in 1..Len(loads) : delayElapses(i)

NextLoad ==
  \/ runEffect
  \/ handleRetry
  \/ \E i \in 1..Len(loads) : \E outcome \in FetchOutcomes : fetchSettles(i, outcome)
  \/ \E i \in 1..Len(loads) : delayElapses(i)

SpecLoad == InitLoad /\ [][NextLoad]_vars

\* every request is answered or fails, and every timer fires
SpecLoadFair == SpecLoad /\ WF_vars(Network)

-----------------------------------------------------------------------------
(* src/lib/googleSheets.ts: the client of the remote store *)

\* Values of the store's JSON and of the metric fields
Num(n)  == [number |-> n]
Str(s)  == [string |-> s]
Bool(b) == [boolean |-> b]
Undefined == [undefined |-> TRUE]

IsNum(v) == DOMAIN v = { "number" }
IsStr(v) == DOMAIN v = { "string" }

\* the truthiness test of  value ? a : b
IsTruthy(v) ==
  IF IsNum(v) THEN v.number # 0
  ELSE IF IsStr(v) THEN v.string # << >>
  ELSE v = Bool(TRUE)

\* a ?? b
Coalesce(a, b) == IF a = Undefined \/ a = null THEN b ELSE a

DIGITS == << "0", "1", "2", "3", "4", "5", "6", "7", "8", "9" >>
DigitValue(c) == (CHOOSE i \in 1..10 : DIGITS[i] = c) - 1

RECURSIVE DecimalValue(_, _, _)
DecimalValue(s, i, acc) ==
  IF i > Len(s) THEN acc ELSE DecimalValue(s, i + 1, acc * 10 + DigitValue(s[i]))

\* Number(value) for a number or a string of decimal digits ('' gives 0)
Number(v) == IF IsNum(v) THEN v.number ELSE DecimalValue(v.string, 1, 0)

RECURSIVE DecimalDigits(_)
DecimalDigits(n) ==
  IF n < 10 THEN << DIGITS[n + 1] >>
  ELSE DecimalDigits(n \div 10) \o << DIGITS[(n % 10) + 1] >>

\* value?.toString() ?? ''
toStringOrEmpty(v) == IF v = Undefined THEN << >> ELSE DecimalDigits(v.number)

\* String.prototype.startsWith
startsWith(text, prefix) ==
  Len(text) >= Len(prefix) /\ SubSeq(text, 1, Len(prefix)) = prefix

\* An object with string keys is a function on its own keys; {} is << >>.
Put(obj, k, v) == [x \in (DOMAIN obj) \cup { k } |-> IF x = k THEN v ELSE obj[x]]
Delete(obj, k) == [x \in (DOMAIN obj) \ { k } |-> obj[x]]
Has(obj, k)    == k \in DOMAIN obj

\* what a function call ends in
Returned(v) == [returned |-> v]
Thrown(e)   == [thrown |-> e]
Throws(r)   == DOMAIN r = { "thrown" }

\* fetch() rejects (network failure, CORS failure)
Rejected == [rejected |-> TRUE]
\* fetch() resolves: the response's type, its text and what JSON.parse makes
\* of that text
Response(t, txt, js) == [type |-> t, text |-> txt, json |-> js]
SyntaxError == Thrown("SyntaxError")

T_DOCTYPE   == << "<", "!", "D", "O", "C", "T", "Y", "P", "E", " ", "h", "t", "m", "l", ">" >>
T_HTML      == << "<", "H", "T", "M", "L", ">" >>
T_html      == << "<", "h", "t", "m", "l", ">" >>
T_PLAIN     == << "S", "e", "r", "v", "i", "c", "e", " ", "u", "n", "a", "v", "a", "i", "l", "a", "b", "l", "e" >>
T_NULL      == << "n", "u", "l", "l" >>
T_ERROR     == << "{", "\"", "e", "r", "r", "o", "r", "\"", ":", "\"", "x", "\"", "}" >>
T_DATA      == << "{", "\"", "c", "o", "n", "t", "r", "a", "c", "t", "s", "\"", ":" >>
T_SUCCESS   == << "{", "\"", "s", "u", "c", "c", "e", "s", "s", "\"", ":", "t", "r", "u", "e", "}" >>
T_FAILURE   == << "{", "\"", "s", "u", "c", "c", "e", "s", "s", "\"", ":", "f", "a", "l", "s", "e", "}" >>
T_STRING    == << "{", "\"", "s", "u", "c", "c", "e", "s", "s", "\"", ":", "\"", "t", "r", "u", "e", "\"", "}" >>
T_BRACE     == << "{", "o", "o", "p", "s" >>
T_REDIRECT  == << "<", "H", "T", "M", "L", ">", "M", "o", "v", "e", "d", " ", "T", "e", "m", "p", "o", "r", "a", "r", "i", "l", "y", " ", "<", "A", " ", "H", "R", "E", "F", "=", "\"", "u", "\"", ">" >>
T_MOVED     == << "M", "o", "v", "e", "d", " ", "T", "e", "m", "p", "o", "r", "a", "r", "i", "l", "y" >>
T_EMPTY     == << >>

\* callGetAPI
callGetAPI(response) ==
  IF response = Rejected THEN Thrown("TypeError")
  ELSE IF \/ startsWith(response.text, << "<", "!", "D", "O", "C", "T", "Y", "P", "E" >>)
          \/ startsWith(response.text, << "<", "H", "T", "M", "L" >>)
          \/ startsWith(response.text, << "<", "h", "t", "m", "l" >>)
       THEN Thrown("API error")
       ELSE IF response.json = SyntaxError THEN SyntaxError
            ELSE Returned(response.json)

\* text.match(/HREF="([^"]+)"/i): HREF=" in either case, at least one
\* character other than a quote, then a quote
MatchesHref(text) ==
  \E i \in 1..Len(text) :
    /\ i + 7 <= Len(text)
    /\ text[i]     \in { "H", "h" }
    /\ text[i + 1] \in { "R", "r" }
    /\ text[i + 2] \in { "E", "e" }
    /\ text[i + 3] \in { "F", "f" }
    /\ text[i + 4] = "="
    /\ text[i + 5] = "\""
    /\ text[i + 6] # "\""
    /\ \E j \in (i + 7)..Len(text) : text[j] = "\""

\* callPostAPI, answered by response and, where it follows the redirect by
\* hand, by redirectResponse
callPostAPI(response, redirectResponse) ==
  IF response = Rejected THEN Thrown("TypeError")
  ELSE IF startsWith(response.text, << "{" >>)
       THEN (IF response.json = SyntaxError THEN SyntaxError
             ELSE Returned(response.json))
       ELSE
         LET followed ==
               /\ includes(response.text, << "M", "o", "v", "e", "d", " ", "T", "e", "m", "p", "o", "r", "a", "r", "i", "l", "y" >>) \/ includes(response.text, << "H", "R", "E", "F", "=" >>)
               /\ MatchesHref(response.text)
         IN  IF followed /\ redirectResponse = Rejected THEN Thrown("TypeError")
             ELSE IF followed /\ startsWith(redirectResponse.text, << "{" >>)
                  THEN (IF redirectResponse.json = SyntaxError THEN SyntaxError
                        ELSE Returned(redirectResponse.json))
                  ELSE IF response.type = "opaque"
                       THEN Returned([success |-> Bool(TRUE)])
                       ELSE Thrown("unexpected response format")

\* one UserMetrics of fetchAllData, from the stored row
UserMetricsOf(value) ==
  [ activeUsers |-> IF IsTruthy(value.activeUsers)
                      THEN Num(Number(value.activeUsers)) ELSE Undefined,
    totalUsers  |-> IF IsTruthy(value.totalUsers)
                      THEN Num(Number(value.totalUsers)) ELSE Undefined ]

EMPTY_SHEET == [contracts |-> << >>, users |-> << >>]

\* fetchAllData
fetchAllData(response) ==
  LET got == callGetAPI(response)
  IN  IF Throws(got) \/ got.returned = null THEN EMPTY_SHEET
      ELSE LET d == got.returned
           IN  [ contracts |-> IF Has(d, "contracts") THEN d.contracts ELSE << >>,
                 users     |-> IF Has(d, "users")
                                 THEN [k \in DOMAIN d.users |-> UserMetricsOf(d.users[k])]
                                 ELSE << >> ]

\* the mutant of Saved below propagates the error of callPostAPI
Saved_Unguarded(response, redirectResponse) ==
  LET result == callPostAPI(response, redirectResponse)
  IN  IF Throws(result) THEN result
      ELSE Returned(Has(result.returned, "success") /\ result.returned.success = Bool(TRUE))

\* saveContract, deleteContract, saveUserMetrics, deleteUserMetrics: what
\* each returns for the request it made
Saved(response, redirectResponse) ==
  LET result == callPostAPI(response, redirectResponse)
  IN  IF Throws(result) THEN Returned(FALSE)
      ELSE Returned(Has(result.returned, "success") /\ result.returned.success = Bool(TRUE))

-----------------------------------------------------------------------------
(* src/app/page.tsx: contract and user-metric overlays kept in the remote store *)

\* two records of educationData with their user metrics: one has both
\* fields, one only totalUsers
SeedMetrics ==
  [ Seoul   |-> [activeUsers |-> Num(9314), totalUsers |-> Num(39249)],
    Daejeon |-> [activeUsers |-> Undefined, totalUsers |-> Num(58)] ]

ClientNames == DOMAIN SeedMetrics

\* what the user-metrics form submits (null deletes the stored metrics)
MetricsForms ==
  { [activeUsers |-> Num(0), totalUsers |-> Undefined],
    [activeUsers |-> Num(5), totalUsers |-> Num(9)] }

\* what the contract form submits (null deletes the stored contract)
ContractForms ==
  { [channel |-> "document", billing |-> "usage"],
    [channel |-> "simple", billing |-> "poc"] }

\* rows of the users sheet as getAll may return them: numbers, numeric
\* strings, empty cells, a field left out
StoredRows ==
  { [activeUsers |-> Num(0), totalUsers |-> Num(58)],
    [activeUsers |-> Str(<< "0" >>), totalUsers |-> Str(<< >>)],
    [activeUsers |-> Num(7), totalUsers |-> Undefined] }

\* the row a saveUsers request carries
RowOf(metrics) ==
  [ activeUsers |-> Str(toStringOrEmpty(metrics.activeUsers)),
    totalUsers  |-> Str(toStringOrEmpty(metrics.totalUsers)) ]

\* answers to the GET of fetchAllData while the store holds sheet
GetResponses(sheet) ==
  { Rejected,
    Response("cors", T_DOCTYPE, SyntaxError),
    Response("cors", T_HTML, SyntaxError),
    Response("cors", T_html, SyntaxError),
    Response("cors", T_PLAIN, SyntaxError),
    Response("cors", T_NULL, null),
    Response("cors", T_ERROR, [error |-> "x"]),
    Response("cors", T_DATA, sheet) }

\* answers to a POST the store has carried out
Accepting ==
  { << Response("cors", T_SUCCESS, [success |-> Bool(TRUE)]), Rejected >>,
    << Response("cors", T_REDIRECT, SyntaxError),
       Response("cors", T_SUCCESS, [success |-> Bool(TRUE)]) >>,
    << Response("opaque", T_EMPTY, SyntaxError), Rejected >> }

\* answers to a POST the store has not carried out, or that never reached it
Refusing ==
  { << Rejected, Rejected >>,
    << Response("cors", T_FAILURE, [success |-> Bool(FALSE)]), Rejected >>,
    << Response("cors", T_STRING, [success |-> Str(<< "t", "r", "u", "e" >>)]), Rejected >>,
    << Response("cors", T_ERROR, [error |-> "x"]), Rejected >>,
    << Response("cors", T_BRACE, SyntaxError), Rejected >>,
    << Response("cors", T_DOCTYPE, SyntaxError), Rejected >>,
    << Response("cors", T_MOVED, SyntaxError), Rejected >>,
    << Response("cors", T_REDIRECT, SyntaxError), Rejected >>,
    << Response("cors", T_REDIRECT, SyntaxError),
       Response("cors", T_FAILURE, [success |-> Bool(FALSE)]) >>,
    << Response("cors", T_REDIRECT, SyntaxError),
       Response("cors", T_DOCTYPE, SyntaxError) >>,
    << Response("opaque", T_EMPTY, SyntaxError), Rejected >> }

\* getUserMetrics
getUserMetrics(stored, clientName, item) ==
  [ activeUsers |-> IF Has(stored, clientName)
                      THEN Coalesce(stored[clientName].activeUsers, item.activeUsers)
                      ELSE item.activeUsers,
    totalUsers  |-> IF Has(stored, clientName)
                      THEN Coalesce(stored[clientName].totalUsers, item.totalUsers)
                      ELSE item.totalUsers ]

InitSheets ==
  /\ remote \in { [contracts |-> c, users |-> u] :
                    c \in { << >> } \cup { [n \in { "Seoul" } |-> f] : f \in ContractForms },
                    u \in { << >> } \cup { [n \in { "Seoul" } |-> r] : r \in StoredRows } }
  /\ contractInfos = << >>
  /\ userMetrics = << >>
  /\ alerts = 0
  /\ out = << >>
  /\ loading = FALSE /\ error = null /\ retryCount = 0 /\ loads = << >>
  /\ data = << >> /\ type = "province"
  /\ aggregatedData = << >>
  /\ painted = [p \in Paths(type) |-> NO_DATA_FILL]
  /\ call = NoCall /\ input = << >>
  /\ NoPage

Shown == << data, type, aggregatedData, painted, call, input, page, net >>

\* loadData: the overlays become what fetchAllData returns
loadData(response) ==
  LET sheet == fetchAllData(response)
  IN  /\ contractInfos' = sheet.contracts
      /\ userMetrics' = sheet.users
      /\ out' = << [op |-> "fetchAllData", clientName |-> "", response |-> response,
                    result |-> Returned(sheet)] >>
      /\ UNCHANGED << remote, alerts, Shown >>

\* handleContractInfoChange(clientName, info): deleteContract or saveContract
\* is awaited, its result dropped, and the overlay updated; only an
\* exception reaches the alert
handleContractInfoChange(clientName, info, accepted, answer) ==
  LET result == Saved(answer[1], answer[2])
  IN  /\ remote' = IF ~accepted THEN remote
                   ELSE [remote EXCEPT !.contracts =
                           IF info = null THEN Delete(@, clientName)
                           ELSE Put(@, clientName, info)]
      /\ IF ~Throws(result)
           THEN /\ contractInfos' = IF info = null THEN Delete(contractInfos, clientName)
                                    ELSE Put(contractInfos, clientName, info)
                /\ alerts' = alerts
           ELSE /\ contractInfos' = contractInfos
                /\ alerts' = alerts + 1
      /\ out' = << [op |-> IF info = null THEN "deleteContract" ELSE "saveContract",
                    clientName |-> clientName, result |-> result] >>
      /\ UNCHANGED << userMetrics, Shown >>

\* handleUserMetricsChange(clientName, metrics): the same with
\* deleteUserMetrics and saveUserMetrics
handleUserMetricsChange(clientName, metrics, accepted, answer) ==
  LET result == Saved(answer[1], answer[2])
  IN  /\ remote' = IF ~accepted THEN remote
                   ELSE [remote EXCEPT !.users =
                           IF metrics = null THEN Delete(@, clientName)
                           ELSE Put(@, clientName, RowOf(metrics))]
      /\ IF ~Throws(result)
           THEN /\ userMetrics' = IF metrics = null THEN Delete(userMetrics, clientName)
                                  ELSE Put(userMetrics, clientName, metrics)
                /\ alerts' = alerts
           ELSE /\ userMetrics' = userMetrics
                /\ alerts' = alerts + 1
      /\ out' = << [op |-> IF metrics = null THEN "deleteUserMetrics" ELSE "saveUserMetrics",
                    clientName |-> clientName, result |-> result] >>
      /\ UNCHANGED << contractInfos, Shown >>

NextSheets ==
  \/ \E response \in GetResponses(remote) : loadData(response)
  \/ \E info \in ContractForms \cup { null }, accepted \in BOOLEAN :
       \E answer \in (IF accepted THEN Accepting ELSE Refusing) :
         handleContractInfoChange("Seoul", info, accepted, answer)
  \/ \E clientName \in ClientNames, metrics \in MetricsForms \cup { null },
        accepted \in BOOLEAN :
       \E answer \in (IF accepted THEN Accepting ELSE Refusing) :
         handleUserMetricsChange(clientName, metrics, accepted, answer)

SpecSheets == InitSheets /\ [][NextSheets]_vars

-----------------------------------------------------------------------------
(* Client run: each function of googleSheets.ts called against a store   *)
(* that answers in every way                                              *)

WriteOps == { "saveContract", "deleteContract", "saveUserMetrics", "deleteUserMetrics" }

Sheets ==
  { [contracts |-> c, users |-> u] :
      c \in { << >> } \cup { [n \in { "Seoul" } |-> f] : f \in ContractForms },
      u \in { << >> } \cup { [n \in { "Seoul" } |-> r] : r \in StoredRows } }

InitClient ==
  /\ remote \in Sheets
  /\ out = << >>
  /\ contractInfos = << >> /\ userMetrics = << >> /\ alerts = 0
  /\ loading = FALSE /\ error = null /\ retryCount = 0 /\ loads = << >>
  /\ data = << >> /\ type = "province"
  /\ aggregatedData = << >>
  /\ painted = [p \in Paths(type) |-> NO_DATA_FILL]
  /\ call = NoCall /\ input = << >>
  /\ NoPage

CallFetchAllData(response) ==
  /\ out' = << [op |-> "fetchAllData", response |-> response,
                redirectResponse |-> Rejected,
                result |-> Returned(fetchAllData(response))] >>
  /\ UNCHANGED << data, type, aggregatedData, painted, call, input, page, rest >>

CallWrite(op, answer) ==
  LET result == Saved(answer[1], answer[2])
  IN  /\ out' = << [op |-> op, response |-> answer[1], redirectResponse |-> answer[2],
                    result |-> result] >>
      /\ UNCHANGED << data, type, aggregatedData, painted, call, input, page, rest >>

NextClient ==
  \/ \E response \in GetResponses(remote) : CallFetchAllData(response)
  \/ \E op \in WriteOps, answer \in Accepting \cup Refusing : CallWrite(op, answer)

SpecClient == InitClient /\ [][NextClient]_vars

-----------------------------------------------------------------------------
(* Properties of the matcher *)

Handlers == { "mouseenter", "click" }

\* a handler has just resolved a feature against the current aggregate
Resolved == call.op \in Handlers

\* the feature that handler resolved
Target == Features(type)[call.path]

\* the canonical (translated) name of a feature at a level
CanonicalName(d, t) == toKoreanName(getRegionName(d, t), t)

\* the partial-match predicate: the normalised names are equal or one is a
\* substring of the other
PartialMatch(canonical, key) ==
  LET cleanTarget == cleanRegionName(canonical)
      cleanK == cleanRegionName(key)
  IN  cleanTarget = cleanK \/ includes(cleanK, cleanTarget) \/ includes(cleanTarget, cleanK)

\* positions, in insertion order, of the keys that partially match a name
Candidates(canonical) ==
  { i \in 1..Len(aggregatedData) : PartialMatch(canonical, aggregatedData[i].key) }

\* C1: if the aggregate map has a key exactly equal to the canonical name of
\* the feature, the match returns that key with its aggregate, also when
\* another key partially matches the name.
ExactMatchPrecedence ==
  Resolved =>
    LET canonical == CanonicalName(Target, type)
    IN  HasKey(aggregatedData, canonical) =>
          /\ call.match # null
          /\ call.match.key = canonical
          /\ call.match.data = At(aggregatedData, canonical)

\* a province feature was resolved whose exact key comes after a different key
\* that partially matches it
ExactMatchPrecedenceWitness ==
  /\ Resolved
  /\ type = "province"
  /\ LET canonical == CanonicalName(Target, type)
     IN  /\ HasKey(aggregatedData, canonical)
         /\ \E i \in Candidates(canonical) :
              /\ aggregatedData[i].key # canonical
              /\ \E j \in (i + 1)..Len(aggregatedData) : aggregatedData[j].key = canonical
         /\ call.match.key = canonical

\* C2: without an exact key, the match returns the first key in insertion
\* order that partially matches the canonical name; the key returned is the
\* aggregate's own key and the display name stays the canonical name.
PartialMatchFirstKey ==
  Resolved =>
    LET canonical == CanonicalName(Target, type)
        candidates == Candidates(canonical)
    IN  (~HasKey(aggregatedData, canonical) /\ candidates # {}) =>
          /\ call.match # null
          /\ call.match.key = aggregatedData[Min(candidates)].key
          /\ call.match.data = aggregatedData[Min(candidates)].value
          /\ call.match.koreanName = canonical

\* a named province feature without an exact key was resolved while two keys
\* partially match it, and the display name differs from the key returned
PartialMatchFirstKeyWitness ==
  /\ Resolved
  /\ type = "province"
  /\ LET canonical == CanonicalName(Target, type)
     IN  /\ canonical # << >>
         /\ ~HasKey(aggregatedData, canonical)
         /\ Cardinality(Candidates(canonical)) >= 2
         /\ call.match # null
         /\ call.match.key # canonical

\* C3: a feature without a name never matches: its match is null, it is
\* painted as "no data" and its tooltip says "no data".
EmptyNameNeverMatches ==
  /\ \A p \in Paths(type) :
       getRegionName(Features(type)[p], type) = << >> => painted[p] = NO_DATA_FILL
  /\ Resolved =>
       (getRegionName(Target, type) = << >> =>
          /\ call.match = null
          /\ call.op = "mouseenter" => call.tooltip.noData
          /\ call.op = "click" => call.selection.data = null)

\* C4: the match is null exactly when no key equals the canonical name and no
\* key partially matches it; a result carries a key of the map and the
\* aggregate stored under that key.
NullIffNoCandidate ==
  Resolved =>
    LET canonical == CanonicalName(Target, type)
    IN  /\ call.match = null <=>
             (~HasKey(aggregatedData, canonical) /\ Candidates(canonical) = {})
        /\ call.match # null =>
             /\ HasKey(aggregatedData, call.match.key)
             /\ call.match.data = At(aggregatedData, call.match.key)
             /\ Len(call.match.data.items) >= 1

\* a named feature was resolved to null against a map that has two keys
NullIffNoCandidateWitness ==
  /\ Resolved
  /\ getRegionName(Target, type) # << >>
  /\ Len(aggregatedData) >= 2
  /\ call.match = null

\* C5: a municipality feature that carries its province (NAME_1) and its own
\* name (NAME_2) is matched only to an aggregate whose records lie in that
\* province.
MunicipalityMatchInOwnProvince ==
  (/\ Resolved
   /\ type = "municipality"
   /\ Truthy(Target.NAME_1)
   /\ Truthy(Target.NAME_2)
   /\ call.match # null) =>
       \A i \in 1..Len(call.match.data.items) :
         LET item == call.match.data.items[i]
         IN  /\ Truthy(item.region)
             /\ isSameRegion(toKoreanName(Target.NAME_1, "province"), item.region)

\* C7: a record keyed by an abbreviated province name of the abbreviation
\* table is matched to the feature the table names for it: resolving that
\* feature returns the aggregate stored under the abbreviated key.
AbbreviatedProvinceMatched ==
  (Resolved /\ type = "province") =>
    \A abbr \in DOMAIN PROVINCE_ABBR_TO_EN :
      (/\ HasKey(aggregatedData, abbr)
       /\ getRegionName(Target, type) = PROVINCE_ABBR_TO_EN[abbr]) =>
          /\ call.match # null
          /\ call.match.key = abbr
          /\ call.match.data = At(aggregatedData, abbr)

-----------------------------------------------------------------------------
(* Properties of the normalisation *)

\* C6: normalisation is idempotent, and the empty string normalises to the
\* empty string.
CleanIdempotent ==
  /\ Len(out) = 2 => out[2] = out[1]
  /\ (input = << >> /\ Len(out) >= 1) => out[1] = << >>

\* a string was normalised twice in which removing the province suffix brings
\* the pieces of the special-city suffix together
CleanIdempotentWitness ==
  /\ input = << "teuk", "do", "byeol", "si" >>
  /\ Len(out) = 2
  /\ out[1] = << "teuk", "byeol" >>

-----------------------------------------------------------------------------
(* Properties of the aggregation *)

RECURSIVE SumCharge(_)
SumCharge(items) ==
  IF items = << >> THEN 0 ELSE items[1].charge + SumCharge(Tail(items))

RECURSIVE SumUsage(_)
SumUsage(items) ==
  IF items = << >> THEN 0 ELSE items[1].usage + SumUsage(Tail(items))

Helpers == { "aggregateByRegion", "aggregateBySubRegion" }

\* every aggregate of a map totals its own items and has at least one
TotalsItems(result) ==
  \A i \in 1..Len(result) :
    /\ result[i].value.charge = SumCharge(result[i].value.items)
    /\ result[i].value.usage = SumUsage(result[i].value.items)
    /\ Len(result[i].value.items) >= 1

\* C8: in every map the aggregation produces (aggregatedData,
\* aggregateByRegion, aggregateBySubRegion) each aggregate's charge and usage
\* are the sums over its items, and it has at least one item.
AggregateInvariant ==
  /\ TotalsItems(aggregatedData)
  /\ call.op \in Helpers => TotalsItems(call.result)

\* a helper was called on records of which two share a key of aggregatedData
AggregateInvariantWitness ==
  /\ call.op \in Helpers
  /\ \E i \in 1..Len(aggregatedData) : Len(aggregatedData[i].value.items) >= 2
  /\ \E i \in 1..Len(call.result) : Len(call.result[i].value.items) >= 2

\* positions of the aggregates whose items hold a record
HoldersOf(rec, result) ==
  { i \in 1..Len(result) :
      \E j \in 1..Len(result[i].value.items) : result[i].value.items[j] = rec }

\* C9: at province level a record is grouped under its region; at
\* municipality level under its subRegion when that is present and non-empty,
\* otherwise under its region.
GroupingKey ==
  \A n \in 1..Len(data) :
    LET rec == data[n]
        key == IF type = "province" THEN rec.region
               ELSE IF rec.subRegion # undefined /\ rec.subRegion # << >>
                      THEN rec.subRegion
                      ELSE rec.region
    IN  Truthy(key) =>
          /\ HasKey(aggregatedData, key)
          /\ \A i \in HoldersOf(rec, aggregatedData) : aggregatedData[i].key = key
          /\ HoldersOf(rec, aggregatedData) # {}

\* at municipality level a record without subRegion is grouped under its
\* region beside a record grouped under its subRegion
GroupingKeyWitness ==
  /\ type = "municipality"
  /\ \E n \in 1..Len(data) :
       /\ ~Truthy(data[n].subRegion)
       /\ Truthy(data[n].region)
       /\ HasKey(aggregatedData, data[n].region)
  /\ \E n \in 1..Len(data) :
       /\ Truthy(data[n].subRegion)
       /\ HasKey(aggregatedData, data[n].subRegion)

\* a record with neither region nor subRegion
Keyless(rec) == ~Truthy(rec.region) /\ ~Truthy(rec.subRegion)

\* no aggregate of the map holds a keyless record, and every key is the key
\* of a record that has one
ExcludesKeyless(result) ==
  /\ \A n \in 1..Len(data) : Keyless(data[n]) => HoldersOf(data[n], result) = {}
  /\ \A i \in 1..Len(result) :
       \E n \in 1..Len(data) :
         ~Keyless(data[n]) /\ result[i].key \in { data[n].region, data[n].subRegion }

-----------------------------------------------------------------------------
(* Order of the contributing records *)

\* the records of an array that are grouped under key at level t, in array order
Contributors(records, t, key) ==
  SelectSeq(records, LAMBDA r : GroupKey(r, t) = key)

-----------------------------------------------------------------------------
(* PoC classification *)

\* C13: a matched region is PoC exactly when its aggregate charge is strictly
\* below pocThreshold: a charge equal to the threshold is not PoC, a charge one
\* below it is.  The fill colour and the tooltip's PoC label decide alike, and
\* a region without a match is never PoC.
PocBoundary ==
  call.op = "mouseenter" =>
    LET m == call.match
        tip == call.tooltip
        fill == painted[call.path]
    IN  /\ tip.isPoc <=> (m # null /\ m.data.charge <= pocThreshold - 1)
        /\ (fill = POC_FILL) <=> tip.isPoc
        /\ m = null => (~tip.isPoc /\ fill = NO_DATA_FILL)
        /\ (m # null /\ m.data.charge = pocThreshold) =>
              (~tip.isPoc /\ fill = "colorScale(charge)")

\* the tooltip of a region whose charge equals the threshold, beside a region
\* painted PoC whose charge is one below it
PocBoundaryWitness ==
  /\ call.op = "mouseenter"
  /\ call.match # null
  /\ call.match.data.charge = pocThreshold
  /\ ~call.tooltip.isPoc
  /\ \E p \in Paths(type) :
       LET m == FindData(Features(type)[p], type, aggregatedData)
       IN  /\ m # null
           /\ m.data.charge = pocThreshold - 1
           /\ painted[p] = POC_FILL

-----------------------------------------------------------------------------
(* Display name *)

\* the name a handler shows for the feature it resolved
DisplayedName ==
  IF call.op = "mouseenter" THEN call.tooltip.displayName ELSE call.selection.region

\* the internal name the level's table gives for an external name, the name
\* itself when the table has no entry for it
Translated(name, t) ==
  LET entries == IF t = "province" THEN PROVINCE_EN_TO_KR_ENTRIES
                 ELSE Swapped(MUNICIPALITY_KR_TO_EN_ENTRIES)
      hits == { i \in 1..Len(entries) : entries[i][1] = name }
  IN  IF hits = {} THEN name ELSE entries[Max(hits)][2]

\* C14: the display name of a feature is its canonical (translated) name
\* whether or not a match is found: on a match, also a partial match to a key
\* of another spelling, it is the canonical name and not the matched key; on
\* no match the payload carries the canonical name and no aggregate, a name
\* the tables do not hold being shown unchanged.
DisplayNameIsCanonical ==
  Resolved =>
    /\ DisplayedName = Translated(getRegionName(Target, type), type)
    /\ call.match = null =>
          IF call.op = "mouseenter"
            THEN call.tooltip.noData /\ call.tooltip.names = << >>
            ELSE call.selection.data = null

\* a partial match to a key spelled differently from the name displayed
DisplayNameIsCanonicalWitness ==
  /\ call.op = "mouseenter"
  /\ call.match # null
  /\ call.match.key # call.tooltip.displayName
  /\ call.tooltip.displayName # << >>
  /\ call.tooltip.displayName # getRegionName(Target, type)

-----------------------------------------------------------------------------
(* Properties of the translation *)

\* the entries toKoreanName reads at a level, external name first
ForwardEntries(level) ==
  IF level = "province" THEN PROVINCE_EN_TO_KR_ENTRIES
  ELSE [i \in 1..Len(MUNICIPALITY_KR_TO_EN_ENTRIES) |->
          << MUNICIPALITY_KR_TO_EN_ENTRIES[i][2], MUNICIPALITY_KR_TO_EN_ENTRIES[i][1] >>]

\* the entries toEnglishName reads at a level besides the abbreviations,
\* internal name first
ReverseEntries(level) ==
  IF level = "province"
    THEN [i \in 1..Len(PROVINCE_EN_TO_KR_ENTRIES) |->
            << PROVINCE_EN_TO_KR_ENTRIES[i][2], PROVINCE_EN_TO_KR_ENTRIES[i][1] >>]
    ELSE MUNICIPALITY_KR_TO_EN_ENTRIES

\* C15: a name that is not a key of the level's table is translated to
\* itself by toKoreanName, and a name that is in neither the reverse table nor
\* (at province level) the abbreviation table is translated to itself by
\* toEnglishName; the result is always a name.
IdentityFallback ==
  \A i \in 1..Len(out) :
    LET e == out[i]
    IN  /\ (e.fn = "toKoreanName" /\ e.arg \notin KeysOf(ForwardEntries(e.level)))
             => e.result = e.arg
        /\ ( /\ e.fn = "toEnglishName"
             /\ e.arg \notin KeysOf(ReverseEntries(e.level))
             /\ e.level = "province" => e.arg \notin KeysOf(PROVINCE_ABBR_TO_EN_ENTRIES) )
             => e.result = e.arg

\* C16: the reverse table of a level has one entry per entry of the forward
\* table and inverts it: a key of PROVINCE_EN_TO_KR translated by toKoreanName
\* and back by toEnglishName (province level) is the key again, and so is a
\* key of MUNICIPALITY_KR_TO_EN translated by toEnglishName and back by
\* toKoreanName (municipality level).
RoundTrip ==
  /\ Cardinality(DOMAIN PROVINCE_KR_TO_EN) = Len(PROVINCE_EN_TO_KR_ENTRIES)
  /\ Cardinality(DOMAIN MUNICIPALITY_EN_TO_KR) = Len(MUNICIPALITY_KR_TO_EN_ENTRIES)
  /\ Len(out) >= 2 =>
       /\ ( /\ out[1].fn = "toKoreanName" /\ out[1].level = "province"
            /\ out[2].fn = "toEnglishName" /\ out[2].level = "province"
            /\ out[1].arg \in KeysOf(PROVINCE_EN_TO_KR_ENTRIES) )
            => out[2].result = out[1].arg
       /\ ( /\ out[1].fn = "toEnglishName" /\ out[1].level = "municipality"
            /\ out[2].fn = "toKoreanName" /\ out[2].level = "municipality"
            /\ out[1].arg \in KeysOf(MUNICIPALITY_KR_TO_EN_ENTRIES) )
            => out[2].result = out[1].arg

\* a municipality key that came back from its external name
RoundTripWitness ==
  /\ Len(out) >= 2
  /\ out[1].fn = "toEnglishName" /\ out[1].level = "municipality"
  /\ out[2].fn = "toKoreanName" /\ out[2].level = "municipality"
  /\ out[1].arg \in KeysOf(MUNICIPALITY_KR_TO_EN_ENTRIES)
  /\ out[1].result # out[1].arg
  /\ out[2].result = input

\* the value the first entry with key k carries
ValueOf(entries, k) == entries[Min({ i \in 1..Len(entries) : entries[i][1] = k })][2]

\* the internal names of the provinces: abbreviated and full
ProvinceNames ==
  KeysOf(PROVINCE_ABBR_TO_EN_ENTRIES) \cup ValuesOf(PROVINCE_EN_TO_KR_ENTRIES)

\* C17: at province level toEnglishName consults the abbreviation table
\* first and the reverse table only for a name that is no abbreviation; at
\* municipality level it consults the municipality table only, so that a
\* province name, abbreviated or full, is returned unchanged there.
LookupOrder ==
  \A i \in 1..Len(out) :
    LET e == out[i]
        abbr == e.arg \in KeysOf(PROVINCE_ABBR_TO_EN_ENTRIES)
    IN  e.fn = "toEnglishName" =>
          /\ (e.level = "province" /\ abbr)
               => e.result = ValueOf(PROVINCE_ABBR_TO_EN_ENTRIES, e.arg)
          /\ (e.level = "province" /\ ~abbr /\ e.arg \in KeysOf(ReverseEntries("province")))
               => e.result = ValueOf(ReverseEntries("province"), e.arg)
          /\ (e.level = "municipality" /\ e.arg \in KeysOf(MUNICIPALITY_KR_TO_EN_ENTRIES))
               => e.result = ValueOf(MUNICIPALITY_KR_TO_EN_ENTRIES, e.arg)
          /\ (e.level = "municipality" /\ e.arg \in ProvinceNames)
               => e.result = e.arg

\* an abbreviation left unchanged at municipality level and then translated
\* at province level
LookupOrderWitness ==
  /\ Len(out) >= 2
  /\ input \in KeysOf(PROVINCE_ABBR_TO_EN_ENTRIES)
  /\ out[1].fn = "toEnglishName" /\ out[1].level = "municipality"
  /\ out[1].result = input
  /\ out[2].fn = "toEnglishName" /\ out[2].level = "province"
  /\ out[2].result # input

-----------------------------------------------------------------------------
(* Additivity of the aggregation *)

\* the keys under which the records of an array are grouped at level t
KeysIn(records, t) ==
  { k \in { GroupKey(records[n], t) : n \in 1..Len(records) } : Truthy(k) }

\* a result as the map it stands for: key to aggregate
AsMap(result) ==
  [k \in { result[i].key : i \in 1..Len(result) } |-> At(result, k)]

\* the union of two maps with disjoint keys
Merge(f, g) ==
  [k \in DOMAIN f \cup DOMAIN g |-> IF k \in DOMAIN f THEN f[k] ELSE g[k]]

\* C18: for record lists A and B whose grouping keys are disjoint at the
\* level, aggregating A ++ B gives the union of aggregate(A) and
\* aggregate(B): the same keys, and under each key the same charge, usage and
\* items.  (data is split at every position into A and B.)
AggregationAdditive ==
  \A k \in 0..Len(data) :
    LET A == SubSeq(data, 1, k)
        B == SubSeq(data, k + 1, Len(data))
    IN  KeysIn(A, type) \cap KeysIn(B, type) = {} =>
          AsMap(aggregatedData) = Merge(AsMap(Aggregate(A, type)), AsMap(Aggregate(B, type)))

\* two records under different keys: A and B are both non-empty
AggregationAdditiveWitness ==
  /\ Len(data) = 2
  /\ KeysIn(SubSeq(data, 1, 1), type) # {}
  /\ KeysIn(SubSeq(data, 2, 2), type) # {}
  /\ KeysIn(SubSeq(data, 1, 1), type) \cap KeysIn(SubSeq(data, 2, 2), type) = {}
  /\ Len(aggregatedData) = 2

-----------------------------------------------------------------------------
(* PoC is a classification, not a filter *)

\* some key of the map equals or partially matches the canonical name of the
\* feature drawn as path p
HasCandidate(p) ==
  LET canonical == CanonicalName(Features(type)[p], type)
  IN  HasKey(aggregatedData, canonical) \/ Candidates(canonical) # {}

\* C19: resolution does not filter PoC regions: a matched region whose charge
\* is below pocThreshold is returned as a match with its key, totals and items
\* and is drawn with the PoC colour and label, not as a region without data;
\* which features are matched is decided by the names alone, whatever the
\* charge.
PocIsNotAFilter ==
  /\ \A p \in Paths(type) : (painted[p] # NO_DATA_FILL) <=> HasCandidate(p)
  /\ (Resolved /\ call.match # null /\ call.match.data.charge < pocThreshold) =>
       /\ HasKey(aggregatedData, call.match.key)
       /\ call.match.data = At(aggregatedData, call.match.key)
       /\ painted[call.path] = POC_FILL
       /\ call.op = "mouseenter" =>
            /\ ~call.tooltip.noData
            /\ call.tooltip.isPoc
            /\ call.tooltip.charge = call.match.data.charge
            /\ call.tooltip.usage = call.match.data.usage
            /\ call.tooltip.names # << >>
       /\ call.op = "click" => call.selection.data = call.match.data

\* the tooltip of a matched PoC region, beside a matched region that is not PoC
PocIsNotAFilterWitness ==
  /\ call.op = "mouseenter"
  /\ call.match # null
  /\ call.match.data.charge < pocThreshold
  /\ call.tooltip.isPoc
  /\ \E p \in Paths(type) : painted[p] = "colorScale(charge)"

-----------------------------------------------------------------------------
(* The seed arrays *)

\* C20: aggregation, PoC filtering and sorting by charge for display never
\* mutate the input: whatever tabs are chosen, however the PoC switch is
\* toggled and whatever is aggregated and listed, every record array behind
\* TAB_CONFIG keeps its records, their order and their field values.
SeedNeverMutated == [][seed' = seed]_vars

\* the list of a tab is shown with PoC customers (filteredData is the seed
\* array itself), that array is not in descending order of charge, and a
\* region with two records is selected
SeedNeverMutatedWitness ==
  /\ showPoc
  /\ activeTab = "local"
  /\ sortedData(filteredData(seed, activeTab, showPoc)).list # seed[activeTab]
  /\ PanelShown(selectedRegion)
  /\ Len(selectedRegion.data.items) = 2

-----------------------------------------------------------------------------
(* Properties of the loading *)

\* the drawMap calls that have not finished
InFlight == { i \in 1..Len(loads) : ~Settled(loads[i]) }

\* C21: the retry button makes the effect run again: a new load is under way
\* whenever the component shows the loading state, so that it leaves the
\* loading state with a drawn map or an error.
LoadingHasLoad == loading => InFlight # {}

\* the i-th fetchWithRetry call has been made and has returned or thrown
SettledAt(i) == i <= Len(loads) /\ Settled(loads[i])

\* C22: fetchWithRetry returns the response of the first attempt that
\* yields one and throws only after the first attempt and all MAX_RETRIES
\* retries have failed, an empty response counting as a failure; it makes at
\* most MAX_RETRIES + 1 attempts, makes none after it has returned or thrown,
\* and always returns or throws.
FetchWithRetryBounded ==
  /\ [](\A i \in 1..Len(loads) :
          LET l == loads[i]
          IN  /\ l.attempts <= MAX_RETRIES + 1
              /\ l.attempts = MAX_RETRIES - l.retries + (IF l.phase = "fetch" THEN 0 ELSE 1)
              /\ l.phase = "returned" =>
                    (l.last = "response" /\ l.failures = l.attempts - 1)
              /\ l.phase = "thrown" =>
                    /\ l.attempts = MAX_RETRIES + 1
                    /\ l.failures = MAX_RETRIES + 1
                    /\ l.last \in { "empty", "error" }
              /\ l.phase \in { "fetch", "delay" } => l.failures = l.attempts)
  /\ [][\A i \in 1..Len(loads) : Settled(loads[i]) => loads'[i] = loads[i]]_vars
  /\ \A i \in 1..MaxLoads : [](Len(loads) >= i => <>SettledAt(i))

\* one call has thrown after four failed attempts, the last one an empty
\* response, and another has returned after retries
FetchWithRetryBoundedWitness ==
  /\ \E i \in 1..Len(loads) :
       /\ loads[i].phase = "thrown"
       /\ loads[i].attempts = MAX_RETRIES + 1
       /\ loads[i].last = "empty"
  /\ \E i \in 1..Len(loads) :
       /\ loads[i].phase = "returned"
       /\ loads[i].attempts > 1

\* C26: with overlapping loads the loading and error state follow the load
\* started last: loading stays set while that load is under way, and once
\* every load has finished no error is shown if that load succeeded.
LatestLoadDecides ==
  loads # << >> =>
    /\ Len(loads) \in InFlight => loading
    /\ (InFlight = {} /\ loads[Len(loads)].phase = "returned") => error = null

-----------------------------------------------------------------------------
(* Properties of the remote-store client *)

\* the exchange of a write ended in a JSON body with success = true, read
\* directly or from the redirect target, or in an opaque response
CarriesSuccess(rec) ==
  /\ rec.response # Rejected
  /\ \/ rec.response.json = [success |-> Bool(TRUE)]
     \/ /\ rec.response.text = T_REDIRECT
        /\ rec.redirectResponse # Rejected
        /\ rec.redirectResponse.json = [success |-> Bool(TRUE)]
     \/ rec.response.type = "opaque"

\* the GET failed, or was answered by an HTML page, by text that is not
\* JSON, or by JSON without contracts and users
NoSheet(rec) ==
  \/ rec.response = Rejected
  \/ rec.response.json = SyntaxError
  \/ rec.response.json = null
  \/ DOMAIN rec.response.json \cap { "contracts", "users" } = {}

\* C23: no function of the remote-store client propagates an error.
\* fetchAllData returns empty contracts and empty users whenever the GET
\* fails or is answered by an HTML page, unparsable text or an unexpected
\* body; saveContract, deleteContract, saveUserMetrics and
\* deleteUserMetrics return a boolean, false on every failure, and true only
\* when the response (read directly, after following the redirect by hand,
\* or opaque) carries success = true.
ClientNeverThrows ==
  \A i \in 1..Len(out) :
    LET rec == out[i]
    IN  /\ ~Throws(rec.result)
        /\ rec.op = "fetchAllData" =>
             /\ DOMAIN rec.result.returned = { "contracts", "users" }
             /\ NoSheet(rec) => rec.result.returned = EMPTY_SHEET
        /\ rec.op \in WriteOps =>
             /\ rec.result.returned \in BOOLEAN
             /\ rec.result.returned = CarriesSuccess(rec)

\* a write whose redirect page was followed by hand and whose second
\* request failed has returned false
ClientNeverThrowsWitness ==
  /\ out # << >>
  /\ out[1].op = "saveUserMetrics"
  /\ out[1].response # Rejected
  /\ out[1].response.text = T_REDIRECT
  /\ out[1].redirectResponse = Rejected
  /\ out[1].result = Returned(FALSE)

-----------------------------------------------------------------------------
(* Properties of the overlays *)

MetricFields == { "activeUsers", "totalUsers" }

\* the number a field of a stored row holds, Undefined for a field left
\* out or an empty cell
StoredValue(v) ==
  IF IsNum(v) THEN v
  ELSE IF IsStr(v) /\ v.string # << >> THEN Num(Number(v))
  ELSE Undefined

\* the overlays were just loaded from the store as it is
JustLoaded ==
  /\ out # << >>
  /\ out[1].op = "fetchAllData"
  /\ out[1].response = Response("cors", T_DATA, remote)

\* C24: once the overlays are loaded, for every client and for activeUsers
\* and totalUsers separately, the value shown is the value the store holds
\* for that client and field when it holds one (0 included), and the seed
\* record's value otherwise.
StoredMetricsShown ==
  JustLoaded =>
    \A c \in ClientNames, f \in MetricFields :
      LET shown  == getUserMetrics(userMetrics, c, SeedMetrics[c])[f]
          stored == IF Has(remote.users, c) THEN StoredValue(remote.users[c][f])
                    ELSE Undefined
      IN  shown = IF stored # Undefined THEN stored ELSE SeedMetrics[c][f]

\* the step is a handler whose remote write reported failure
WriteFailed == out' # << >> /\ out'[1].op \in WriteOps /\ out'[1].result = Returned(FALSE)

\* C25: when the remote save or delete reports failure, contractInfos and
\* userMetrics are left as they were and the user is alerted; the
\* overlays change only after a write the store accepted.
FailedWriteLeavesOverlay ==
  [][WriteFailed =>
       /\ contractInfos' = contractInfos
       /\ userMetrics' = userMetrics
       /\ alerts' = alerts + 1]_vars

-----------------------------------------------------------------------------
(* The selection and the current view *)

\* what the map of the current view aggregates
CurrentAggregate ==
  IF TAB_CONFIG[activeTab].hasMap
    THEN Aggregate(filteredData(seed, activeTab, showPoc), TAB_CONFIG[activeTab].mapType)
    ELSE << >>

Records(items) == { items[i] : i \in 1..Len(items) }

\* the same totals and the same contributing records, in whatever order
SameAggregate(a, b) ==
  /\ a.charge = b.charge
  /\ a.usage = b.usage
  /\ Len(a.items) = Len(b.items)
  /\ Records(a.items) = Records(b.items)

\* C27: after any tab changes, PoC toggles and region clicks, the selection
\* shown in the detail panel is the aggregate the current filtered records
\* (active tab, current showPoc) give that region; with showPoc off it
\* holds no record whose charge is below the PoC threshold.
SelectionMatchesView ==
  PanelShown(selectedRegion) =>
    /\ HasKey(CurrentAggregate, selectedRegion.key)
    /\ SameAggregate(selectedRegion.data, At(CurrentAggregate, selectedRegion.key))
    /\ ~showPoc => \A i \in 1..Len(selectedRegion.data.items) :
                     NotPoc(selectedRegion.data.items[i])

-----------------------------------------------------------------------------
(* PoC display switched off *)

\* C28: with showPoc off the map receives only records with charge >=
\* POC_THRESHOLD, so every aggregate has charge >= POC_THRESHOLD and no
\* region is coloured or labelled PoC; and the records shown plus pocCount
\* are all the records of the active tab.
PocHiddenWhenOff ==
  ~showPoc =>
    /\ TAB_CONFIG[activeTab].hasMap =>
         /\ data = filteredData(seed, activeTab, showPoc)
         /\ \A i \in 1..Len(data) : data[i].charge >= POC_THRESHOLD
         /\ \A i \in 1..Len(aggregatedData) :
              aggregatedData[i].value.charge >= POC_THRESHOLD
         /\ \A p \in Paths(type) :
              /\ painted[p] # POC_FILL
              /\ ~TooltipContent(Features(type)[p], type,
                                 FindData(Features(type)[p], type, aggregatedData)).isPoc
    /\ Len(filteredData(seed, activeTab, showPoc)) + pocCount(seed, activeTab)
         = Len(seed[activeTab])

\* PoC display is off on a tab with a map, a PoC record is hidden and a
\* region is coloured by its charge
PocHiddenWhenOffWitness ==
  /\ ~showPoc
  /\ TAB_CONFIG[activeTab].hasMap
  /\ pocCount(seed, activeTab) > 0
  /\ data # << >>
  /\ \E p \in Paths(type) : painted[p] = "colorScale(charge)"

=============================================================================
